---- MODULE Spec2Model ----
(***************************************************************************)
(* Model of backend/app.py: the job-search aggregation session             *)
(* (JobSearchEngine.comprehensive_job_search and its helpers), the         *)
(* interview-question aggregation (InterviewQuestionAPI and                *)
(* JobSearchEngine.search_interview_questions), the two HTTP routes that   *)
(* validate a request and start a session, and the adapters' paced calls   *)
(* to the search provider.                                                 *)
(*                                                                         *)
(* Python strings are sequences of one-character strings, so that strip(), *)
(* lower(), split(), the `in` test and the two re.sub normalisations are   *)
(* computed as the code computes them.                                     *)
(***************************************************************************)
EXTENDS Integers, Sequences, FiniteSets, TLC

----------------------------------------------------------------------------
(* Python string primitives                                                *)

UpperChars == <<"A","B","C","D","E","F","G","H","I","J","K","L","M","N","O","P","Q","R","S","T","U","V","W","X","Y","Z">>

LowerChars == <<"a","b","c","d","e","f","g","h","i","j","k","l","m","n","o","p","q","r","s","t","u","v","w","x","y","z">>

DigitChars == <<"0","1","2","3","4","5","6","7","8","9">>

Range(s) == { s[i] : i \in DOMAIN s }

\* str.isspace() for one character
IsSpace(c) == c \in {" ", "\t", "\n"}

\* the regular-expression class \w for one character
IsWord(c) == c \in Range(UpperChars) \cup Range(LowerChars) \cup Range(DigitChars) \cup {"_"}

LowerChar(c) ==
    IF c \in Range(UpperChars)
    THEN LowerChars[CHOOSE i \in DOMAIN UpperChars : UpperChars[i] = c]
    ELSE c

\* str.lower()
Lower(s) == [i \in DOMAIN s |-> LowerChar(s[i])]

RECURSIVE LStrip(_)
LStrip(s) == IF s # <<>> /\ IsSpace(Head(s)) THEN LStrip(Tail(s)) ELSE s

RECURSIVE RStrip(_)
RStrip(s) == IF s # <<>> /\ IsSpace(s[Len(s)]) THEN RStrip(SubSeq(s, 1, Len(s) - 1)) ELSE s

\* str.strip()
Strip(s) == RStrip(LStrip(s))

\* the Python test `sub in s`
Contains(sub, s) ==
    \E i \in 1..(Len(s) - Len(sub) + 1) : SubSeq(s, i, i + Len(sub) - 1) = sub

\* str.split() with no separator: the maximal runs of non-whitespace
RECURSIVE SplitFrom(_, _, _)
SplitFrom(s, cur, acc) ==
    IF s = <<>>
    THEN IF cur = <<>> THEN acc ELSE Append(acc, cur)
    ELSE IF IsSpace(Head(s))
         THEN SplitFrom(Tail(s), <<>>, IF cur = <<>> THEN acc ELSE Append(acc, cur))
         ELSE SplitFrom(Tail(s), Append(cur, Head(s)), acc)

Split(s) == SplitFrom(s, <<>>, <<>>)

\* re.sub(r'[^\w\s]', '', s)
RECURSIVE StripPunct(_)
StripPunct(s) ==
    IF s = <<>> THEN <<>>
    ELSE IF IsWord(Head(s)) \/ IsSpace(Head(s))
         THEN <<Head(s)>> \o StripPunct(Tail(s))
         ELSE StripPunct(Tail(s))

\* re.sub(r'\s+', ' ', s)
RECURSIVE CollapseSpaces(_)
CollapseSpaces(s) ==
    IF s = <<>> THEN <<>>
    ELSE IF IsSpace(Head(s))
         THEN <<" ">> \o CollapseSpaces(LStrip(s))
         ELSE <<Head(s)>> \o CollapseSpaces(Tail(s))

\* a slice that keeps the end of the list, s[-n:]
SliceTo_end(s, n) ==
    IF n >= Len(s) THEN s ELSE SubSeq(s, Len(s) - n + 1, Len(s))

\* the Python slice s[:n], for every integer n
SliceTo(s, n) ==
    IF n >= 0
    THEN SubSeq(s, 1, IF n < Len(s) THEN n ELSE Len(s))
    ELSE SubSeq(s, 1, IF Len(s) + n > 0 THEN Len(s) + n ELSE 0)

Min2(a, b) == IF a <= b THEN a ELSE b

RECURSIVE SumSeq(_)
SumSeq(s) == IF s = <<>> THEN 0 ELSE Head(s) + SumSeq(Tail(s))

RECURSIVE Flatten(_)
Flatten(ss) == IF ss = <<>> THEN <<>> ELSE Head(ss) \o Flatten(Tail(ss))

----------------------------------------------------------------------------
(* Configuration (app.py, lines 40-42) and the numbers the handlers use    *)

REQUEST_DELAY == 2

MAX_WORKERS == 3

\* future.result(timeout=30)
TaskTimeout == 30

\* unique_jobs[:50]
JobCap == 50

\* min(data.get('question_count', 10), 20)
HardMaxQuestions == 20

\* the default of question_count, in the route and in InterviewQuestionAPI
DefaultQuestionCount == 10

\* len(job_role) < 2, len(domain) < 2
MinSubjectLen == 2

\* `if score > 3` in _filter_relevant_questions
RelevanceThreshold == 3

(* Bounds of the model *)

\* the day the session runs on (datetime.now()), as a day number
Today == 100

\* the Orchestrator's wait is followed up to here, in seconds
MaxWait == 40

\* one step of the clock that measures the wait
TickSeconds == 10

\* the clock of the paced provider calls stops here
MaxPaceTime == 5

\* question_count values a request may carry: -MaxCountBelow .. HardMaxQuestions + 2
MaxCountBelow == 2

----------------------------------------------------------------------------
(* The jobs the adapters can return.  A job is the dict an adapter's       *)
(* parser builds; posted_date is the '%Y-%m-%d' string of a day number     *)
(* (kind "date"), the empty string (kind "empty") or a string strptime     *)
(* rejects (kind "bad").                                                   *)

\* 'ML Engineer' at 'Acme', from LinkedIn, posted today
Job1 ==
    [title |-> <<"M","L"," ","E","n","g","i","n","e","e","r">>,
     company |-> <<"A","c","m","e">>, url |-> <<"u","1">>,
     description |-> <<>>, source |-> <<"L","i","n","k","e","d","I","n">>,
     experience_level |-> <<"e","n","t","r","y">>,
     job_type |-> <<"F","u","l","l","-","t","i","m","e">>,
     posted_date |-> [kind |-> "date", day |-> Today]]

\* 'ml engineer!' at 'acme', from Naukri, posted ten days ago
Job2 ==
    [title |-> <<"m","l"," ","e","n","g","i","n","e","e","r","!">>,
     company |-> <<"a","c","m","e">>, url |-> <<"u","2">>,
     description |-> <<"n","l","p">>, source |-> <<"N","a","u","k","r","i">>,
     experience_level |-> <<"0","-","1">>,
     job_type |-> <<"F","u","l","l","-","t","i","m","e">>,
     posted_date |-> [kind |-> "date", day |-> Today - 10]]

\* 'Data Analyst' at 'Beta', from Indeed
Job3 ==
    [title |-> <<"D","a","t","a"," ","A","n","a","l","y","s","t">>,
     company |-> <<"B","e","t","a">>, url |-> <<"u","3">>,
     description |-> <<>>, source |-> <<"I","n","d","e","e","d">>,
     experience_level |-> <<"E","n","t","r","y"," ","L","e","v","e","l">>,
     job_type |-> <<"F","u","l","l","-","t","i","m","e">>,
     posted_date |-> [kind |-> "date", day |-> Today]]

\* 'AI Intern' at 'Various Companies', from FreshersWorld
Job4 ==
    [title |-> <<"A","I"," ","I","n","t","e","r","n">>,
     company |-> <<"V","a","r","i","o","u","s"," ","C","o","m","p","a","n","i","e","s">>,
     url |-> <<"u","4">>,
     description |-> <<>>, source |-> <<"F","r","e","s","h","e","r","s","W","o","r","l","d">>,
     experience_level |-> <<"F","r","e","s","h","e","r">>,
     job_type |-> <<"F","u","l","l","-","t","i","m","e">>,
     posted_date |-> [kind |-> "date", day |-> Today]]

\* a FreshersWorld result without a title: result.get('title', '') = ''
Job5 ==
    [title |-> <<>>,
     company |-> <<"V","a","r","i","o","u","s"," ","C","o","m","p","a","n","i","e","s">>,
     url |-> <<"u","5">>,
     description |-> <<>>, source |-> <<"F","r","e","s","h","e","r","s","W","o","r","l","d">>,
     experience_level |-> <<"F","r","e","s","h","e","r">>,
     job_type |-> <<"F","u","l","l","-","t","i","m","e">>,
     posted_date |-> [kind |-> "date", day |-> Today]]

\* 'AI Trainee' at 'Gamma', from Monster
Job6 ==
    [title |-> <<"A","I"," ","T","r","a","i","n","e","e">>,
     company |-> <<"G","a","m","m","a">>, url |-> <<"u","6">>,
     description |-> <<>>, source |-> <<"M","o","n","s","t","e","r">>,
     experience_level |-> <<"E","n","t","r","y"," ","L","e","v","e","l">>,
     job_type |-> <<"F","u","l","l","-","t","i","m","e">>,
     posted_date |-> [kind |-> "date", day |-> Today]]

----------------------------------------------------------------------------
(* The parsers that build a job from one search result.  The company is    *)
(* not a field of the result: LinkedIn and Indeed derive it from the       *)
(* title, FreshersWorld and Monster use a fixed text.                      *)

\* str.find(sub) from position `from` on: the first index, 0 when absent
RECURSIVE FindSub(_, _, _)
FindSub(sub, s, from) ==
    IF from + Len(sub) - 1 > Len(s) THEN 0
    ELSE IF SubSeq(s, from, from + Len(sub) - 1) = sub THEN from
         ELSE FindSub(sub, s, from + 1)

\* str.replace(sub, ''): every non-overlapping occurrence, left to right
RECURSIVE RemoveAll(_, _)
RemoveAll(s, sub) ==
    LET i == FindSub(sub, s, 1)
    IN  IF i = 0 THEN s
        ELSE SubSeq(s, 1, i - 1) \o RemoveAll(SubSeq(s, i + Len(sub), Len(s)), sub)

\* str.split(sep)[-1]: what follows the last occurrence of sep
RECURSIVE LastPart(_, _)
LastPart(s, sep) ==
    LET i == FindSub(sep, s, 1)
    IN  IF i = 0 THEN s ELSE LastPart(SubSeq(s, i + Len(sep), Len(s)), sep)

company_not_specified ==
    <<"C","o","m","p","a","n","y"," ","N","o","t"," ","S","p","e","c","i","f","i","e","d">>

\* IndeedJobAPI._extract_company_from_title
indeed_extract_company_from_title(title) ==
    IF Contains(<<" ","-"," ">>, title)
    THEN Strip(LastPart(title, <<" ","-"," ">>))
    ELSE company_not_specified

\* The lazy group ([^...]+?) that starts at g: the position after its last
\* character, i.e. the first q > g where the end of the text, a terminator
\* or a blank followed by a terminator stands; 0 when a character the group
\* may not hold comes first.  The text has single blanks only.
RECURSIVE GroupEnd(_, _, _, _)
GroupEnd(s, q, forbidden, terminators) ==
    IF q > Len(s) THEN q
    ELSE IF s[q] \in terminators THEN q
    ELSE IF s[q] = " " /\ q < Len(s) /\ s[q + 1] \in terminators THEN q
    ELSE IF s[q] \in forbidden THEN 0
    ELSE GroupEnd(s, q + 1, forbidden, terminators)

\* re.search(prefix \s+ group terminator, s, re.IGNORECASE) from position i
\* on: the group of the leftmost match (never empty), or <<>> when nothing
\* matches.  s is whitespace-collapsed and stripped, so \s+ is exactly one
\* blank and the group starts after it.
RECURSIVE SearchGroup(_, _, _, _, _)
SearchGroup(s, i, prefix, forbidden, terminators) ==
    IF i + Len(prefix) + 1 > Len(s) THEN <<>>
    ELSE LET g == i + Len(prefix) + 1
             q == IF s[g] \in forbidden THEN 0
                  ELSE GroupEnd(s, g + 1, forbidden, terminators)
         IN  IF /\ Lower(SubSeq(s, i, i + Len(prefix) - 1)) = prefix
                /\ s[g - 1] = " "
                /\ q # 0
             THEN SubSeq(s, g, q - 1)
             ELSE SearchGroup(s, i + 1, prefix, forbidden, terminators)

\* the four patterns of LinkedInJobAPI._extract_company_from_title, in order;
\* the bullet of the third pattern is not a character of the model's titles
linkedin_patterns ==
    << [prefix |-> <<"a","t">>, forbidden |-> {"-", "|"}, terminators |-> {"-", "|"}],
       [prefix |-> <<"-">>,     forbidden |-> {"|"},      terminators |-> {"|"}],
       [prefix |-> <<"|">>,     forbidden |-> {"|"},      terminators |-> {"-"}] >>

unwanted_company_words ==
    { <<"h","i","r","i","n","g">>, <<"j","o","b","s">>, <<"c","a","r","e","e","r","s">> }

\* the loop over the patterns: the first pattern whose match is a company
RECURSIVE FirstCompany(_, _)
FirstCompany(s, k) ==
    IF k > Len(linkedin_patterns) THEN <<>>
    ELSE LET pat == linkedin_patterns[k]
             m == SearchGroup(s, 1, pat.prefix, pat.forbidden, pat.terminators)
             company == Strip(m)
         IN  IF /\ m # <<>>
                /\ Len(company) > 2
                /\ \A w \in unwanted_company_words : ~Contains(w, Lower(company))
             THEN company
             ELSE FirstCompany(s, k + 1)

\* LinkedInJobAPI._extract_company_from_title
linkedin_extract_company_from_title(raw_title) ==
    LET title == Strip(CollapseSpaces(raw_title))
        found == FirstCompany(title, 1)
        potential_company == Strip(LastPart(title, <<" ","-"," ">>))
    IN  IF found # <<>> THEN found
        ELSE IF Contains(<<" ","-"," ">>, title) /\ Len(potential_company) > 2
             THEN potential_company
             ELSE company_not_specified

\* IndeedJobAPI._parse_indeed_result for a result with this title and link
parse_indeed_result(result_title, link) ==
    LET title == Strip(RemoveAll(result_title, <<" ","-"," ","I","n","d","e","e","d">>))
    IN  [title |-> title,
         company |-> indeed_extract_company_from_title(title),
         url |-> link, description |-> <<>>, source |-> <<"I","n","d","e","e","d">>,
         experience_level |-> <<"E","n","t","r","y"," ","L","e","v","e","l">>,
         job_type |-> <<"F","u","l","l","-","t","i","m","e">>,
         posted_date |-> [kind |-> "date", day |-> Today]]

\* LinkedInJobAPI._parse_linkedin_result for a result with this title and
\* link, an empty snippet (so _extract_date gives today), a title that
\* names no other job type and the default experience_level
parse_linkedin_result(result_title, link) ==
    LET title == RemoveAll(RemoveAll(result_title,
                     <<" ","-"," ","L","i","n","k","e","d","I","n">>),
                     <<" ","|"," ","L","i","n","k","e","d","I","n">>)
    IN  [title |-> Strip(title),
         company |-> linkedin_extract_company_from_title(title),
         url |-> link, description |-> <<>>, source |-> <<"L","i","n","k","e","d","I","n">>,
         experience_level |-> <<"e","n","t","r","y">>,
         job_type |-> <<"F","u","l","l","-","t","i","m","e">>,
         posted_date |-> [kind |-> "date", day |-> Today]]

\* Indeed's result 'ML Engineer - Acme'
Job7 == parse_indeed_result(<<"M","L"," ","E","n","g","i","n","e","e","r"," ","-"," ","A","c","m","e">>,
                            <<"u","7">>)

\* LinkedIn's result 'ml engineer @ acme'
Job8 == parse_linkedin_result(<<"m","l"," ","e","n","g","i","n","e","e","r"," ","@"," ","a","c","m","e">>,
                              <<"u","8">>)

\* FreshersWorld's result 'AI Intern' whose 'link' is missing:
\* result.get('link', '') is the empty string
Job9 ==
    [title |-> <<"A","I"," ","I","n","t","e","r","n">>,
     company |-> <<"V","a","r","i","o","u","s"," ","C","o","m","p","a","n","i","e","s">>,
     url |-> <<>>,
     description |-> <<>>, source |-> <<"F","r","e","s","h","e","r","s","W","o","r","l","d">>,
     experience_level |-> <<"F","r","e","s","h","e","r">>,
     job_type |-> <<"F","u","l","l","-","t","i","m","e">>,
     posted_date |-> [kind |-> "date", day |-> Today]]

\* Python's None, which is no string: strings are sequences of one-character
\* strings
NoneValue == <<"None">>

\* FreshersWorld's result whose 'title' is null in the provider's JSON:
\* result.get('title', '') is None
Job10 == [Job4 EXCEPT !.title = NoneValue, !.url = <<"u","1","0">>]

\* return jobs[:15], [:12], [:10], [:8], [:8]
adapter_caps == <<15, 12, 10, 8, 8>>

\* The k-th job of a session in which every adapter returns as many jobs as
\* its cap allows, in submission order: 15 from LinkedIn, 12 from Naukri,
\* 10 from Indeed, 8 from FreshersWorld, 8 from Monster.  Every fifth title
\* starts with 'AI'.
\* jobs 1 to 10 are the ones above, job 10 + k is BulkJob(k)
JobData ==
    LET BulkJob(k) ==
            [title |-> (IF k % 5 = 0 THEN <<"A","I"," ">> ELSE <<>>)
                         \o <<"T", DigitChars[(k \div 10) + 1], DigitChars[(k % 10) + 1]>>,
             company |-> <<"C","o">>, url |-> <<"u">>, description |-> <<>>,
             source |-> IF k <= 15 THEN <<"L","i","n","k","e","d","I","n">>
                        ELSE IF k <= 27 THEN <<"N","a","u","k","r","i">>
                        ELSE IF k <= 37 THEN <<"I","n","d","e","e","d">>
                        ELSE IF k <= 45 THEN <<"F","r","e","s","h","e","r","s","W","o","r","l","d">>
                        ELSE <<"M","o","n","s","t","e","r">>,
             experience_level |-> <<"e","n","t","r","y">>,
             job_type |-> <<"F","u","l","l","-","t","i","m","e">>,
             posted_date |-> [kind |-> "date", day |-> Today]]
    IN  <<Job1, Job2, Job3, Job4, Job5, Job6, Job7, Job8, Job9, Job10>>
            \o [k \in 1..SumSeq(adapter_caps) |-> BulkJob(k)]

JobIds == DOMAIN JobData

----------------------------------------------------------------------------
(* JobSearchEngine: deduplication, validity, relevance, ranking            *)

\* hashlib.md5 is taken to be collision-free: the digest is represented by
\* the string that is hashed, f"{title}_{company}"
create_job_hash(job) ==
    LET title == CollapseSpaces(StripPunct(Strip(Lower(job.title))))
        company == Strip(Lower(job.company))
    IN  title \o <<"_">> \o company

\* a check that does not ask for the url
is_valid_job_without_url(job) ==
    /\ job.title # <<>> /\ Strip(job.title) # <<>>
    /\ job.company # <<>> /\ Strip(job.company) # <<>>

is_valid_job(job) ==
    /\ job.title # <<>> /\ Strip(job.title) # <<>>
    /\ job.company # <<>> /\ Strip(job.company) # <<>>
    /\ job.url # <<>> /\ Strip(job.url) # <<>>

ai_ml_keywords ==
    << <<"a","i">>, <<"m","l">>,
       <<"m","a","c","h","i","n","e"," ","l","e","a","r","n","i","n","g">>,
       <<"a","r","t","i","f","i","c","i","a","l"," ","i","n","t","e","l","l","i","g","e","n","c","e">>,
       <<"d","e","e","p"," ","l","e","a","r","n","i","n","g">>,
       <<"n","e","u","r","a","l"," ","n","e","t","w","o","r","k">>,
       <<"n","l","p">>,
       <<"c","o","m","p","u","t","e","r"," ","v","i","s","i","o","n">>,
       <<"d","a","t","a"," ","s","c","i","e","n","c","e">>,
       <<"t","e","n","s","o","r","f","l","o","w">>,
       <<"p","y","t","o","r","c","h">> >>

fresher_words ==
    << <<"e","n","t","r","y">>, <<"f","r","e","s","h","e","r">>,
       <<"0","-","1">>, <<"g","r","a","d","u","a","t","e">> >>

\* the two per-keyword bonuses of one keyword list
KeywordScore(keywords, title, description, inTitle, inDescription) ==
    SumSeq([i \in DOMAIN keywords |->
              (IF Contains(keywords[i], title) THEN inTitle ELSE 0)
            + (IF Contains(keywords[i], description) THEN inDescription ELSE 0)])

\* a bonus that does not tell a week from a month
RecencyBonus_flat(posted_date, today) ==
    IF posted_date.kind # "date" THEN 0
    ELSE IF today - posted_date.day <= 30 THEN 8 ELSE 0

\* the try/except block around strptime: no bonus when the date is missing
\* or does not parse
RecencyBonus(posted_date, today) ==
    IF posted_date.kind # "date" THEN 0
    ELSE IF today - posted_date.day <= 7 THEN 8
         ELSE IF today - posted_date.day <= 30 THEN 4 ELSE 0

\* _calculate_relevance when datetime.now() falls on day `today`
calculate_relevance_at(job, job_role, today) ==
    LET title == Lower(job.title)
        description == Lower(job.description)
        job_role_lower == Lower(job_role)
        source == Lower(job.source)
        exp_level == Lower(job.experience_level)
        job_type == Lower(job.job_type)
    IN    (IF Contains(job_role_lower, title) THEN 20 ELSE 0)
        + KeywordScore(Split(job_role_lower), title, description, 8, 3)
        + KeywordScore(ai_ml_keywords, title, description, 10, 5)
        + (IF Contains(<<"l","i","n","k","e","d","i","n">>, source) THEN 8
           ELSE IF Contains(<<"n","a","u","k","r","i">>, source) THEN 6
           ELSE IF Contains(<<"i","n","d","e","e","d">>, source) THEN 4 ELSE 0)
        + (IF \E i \in DOMAIN fresher_words : Contains(fresher_words[i], exp_level)
           THEN 10 ELSE 0)
        + (IF job_type = <<"f","u","l","l","-","t","i","m","e">> THEN 5
           ELSE IF job_type = <<"i","n","t","e","r","n","s","h","i","p">> THEN 3 ELSE 0)
        + RecencyBonus(job.posted_date, today)

\* the score of a job in a session that runs on day Today
calculate_relevance(job, job_role) == calculate_relevance_at(job, job_role, Today)

\* a job of results['all_jobs'] before it is scored
NoScore == -1

Unscored(ids) == [i \in DOMAIN ids |-> [job |-> ids[i], relevance_score |-> NoScore]]

\* a loop that never records the hashes it has seen
RECURSIVE DedupJobs_forgetful(_, _, _)
DedupJobs_forgetful(jobs, seen_jobs, job_role) ==
    IF jobs = <<>> THEN <<>>
    ELSE LET job == JobData[Head(jobs).job]
         IN  IF create_job_hash(job) \notin seen_jobs /\ is_valid_job(job)
             THEN <<[job |-> Head(jobs).job,
                     relevance_score |-> calculate_relevance(job, job_role)]>>
                  \o DedupJobs_forgetful(Tail(jobs), seen_jobs, job_role)
             ELSE DedupJobs_forgetful(Tail(jobs), seen_jobs, job_role)

\* the loop of _remove_duplicates_and_rank: first job of each hash, valid jobs only
RECURSIVE DedupJobs(_, _, _)
DedupJobs(jobs, seen_jobs, job_role) ==
    IF jobs = <<>> THEN <<>>
    ELSE LET job == JobData[Head(jobs).job]
             job_hash == create_job_hash(job)
         IN  IF job_hash \notin seen_jobs /\ is_valid_job(job)
             THEN <<[job |-> Head(jobs).job,
                     relevance_score |-> calculate_relevance(job, job_role)]>>
                  \o DedupJobs(Tail(jobs), seen_jobs \cup {job_hash}, job_role)
             ELSE DedupJobs(Tail(jobs), seen_jobs, job_role)

\* a sort that puts a later item before the earlier items of equal score
RECURSIVE InsertByScore_unstable(_, _)
InsertByScore_unstable(sorted, x) ==
    IF sorted = <<>> THEN <<x>>
    ELSE IF Head(sorted).relevance_score > x.relevance_score
         THEN <<Head(sorted)>> \o InsertByScore_unstable(Tail(sorted), x)
         ELSE <<x>> \o sorted

\* list.sort(key=relevance_score, reverse=True): stable, equal scores keep their order
RECURSIVE InsertByScore(_, _)
InsertByScore(sorted, x) ==
    IF sorted = <<>> THEN <<x>>
    ELSE IF Head(sorted).relevance_score >= x.relevance_score
         THEN <<Head(sorted)>> \o InsertByScore(Tail(sorted), x)
         ELSE <<x>> \o sorted

RECURSIVE SortByScoreDesc(_)
SortByScoreDesc(s) ==
    IF s = <<>> THEN <<>>
    ELSE InsertByScore(SortByScoreDesc(SubSeq(s, 1, Len(s) - 1)), s[Len(s)])

remove_duplicates_and_rank(jobs, job_role) ==
    SliceTo(SortByScoreDesc(DedupJobs(jobs, {}, job_role)), JobCap)

----------------------------------------------------------------------------
(* State                                                                   *)

VARIABLES
    kind,          \* which route the request went to: "none", "jobs", "questions"
    http,          \* the status the route answered with, 0 before any answer
    job_role,      \* search_jobs: data['job_role'].strip()
    pc,            \* position of comprehensive_job_search, "idle" before its thread starts
    submitted,     \* number of executor.submit calls made
    task,          \* per adapter: "none", "queued", "running", "done"
    calls,         \* per adapter: how often its search_jobs was invoked
    outcome,       \* per adapter: how its search_jobs ended ("pending" before)
    future,        \* per adapter: the list its future holds once done
    finished,      \* as_completed's waiter: futures completed since its call, oldest first
    initialDone,   \* the futures as_completed found done when called, not yet yielded
    collected,     \* the futures as_completed has yielded, in order
    results,       \* the results dict of the session
    events,        \* what socketio.emit was called with, in order
    waited,        \* seconds the Orchestrator has been blocked waiting for a completion
    request,       \* the JSON body: its subject as sent and its question_count, if any
    domain,        \* interview-questions: data['domain'].strip()
    question_count,\* interview-questions: the count handed to the engine
    qpc,           \* position of JobSearchEngine.search_interview_questions
    query_i,       \* InterviewQuestionAPI: index of the next search query
    all_questions, \* InterviewQuestionAPI: questions collected so far
    questions,     \* the questions of the interview_search_completed event
    now,           \* paced calls: the clock, in seconds
    inCall,        \* paced calls: adapters whose provider call is in flight
    lastCallAt,    \* paced calls: when the latest provider call was issued, -1 if none
    minGap,        \* paced calls: smallest time between two successive provider calls
    ptask,         \* paced calls: per adapter "queued", "call", "inflight", "sleep", "done"
    pquery,        \* paced calls: per adapter, index of its current sub-query
    wakeAt,        \* paced calls: per adapter, when its time.sleep returns
    stage,         \* pipeline: "off", "arrived", "deduped", "ranked", "capped",
                   \*   "enhancing", "returned"
    items_kind,    \* pipeline: "jobs" or "questions"
    arrived,       \* pipeline: the merged items, in arrival order
    target,        \* pipeline: the question_count of the session (questions)
    unique_items,  \* pipeline: what the deduplication loop keeps
    unique_again,  \* pipeline: the deduplication loop applied to unique_items
    ranked_items,  \* pipeline: the scored items after list.sort
    capped_items,  \* pipeline: the sorted list after the slice that follows the sort
    enhanced_questions, \* pipeline: the questions given a 'solution' so far
    returned_items,\* pipeline: the list the engine hands to the caller
    returned_total,\* pipeline: results['total_jobs'] (jobs)
    adapter,       \* one adapter: which adapter's search_jobs runs
    emit_raises,   \* one adapter: whether socketio.emit raises inside emit_status
    adapter_pc,    \* one adapter: "off", "running", "returned"
    adapter_query, \* one adapter: number of sub-queries executed
    adapter_jobs,  \* one adapter: the local list `jobs`
    adapter_log,   \* one adapter: per executed sub-query, what it appended and
                   \*   whether it raised
    adapter_return,\* one adapter: what _safe_search returned
    clock_day,     \* scoring: the day datetime.now() falls on, as a day number
    scored,        \* scoring: the calls made so far: item, query, day and score
    sessions,      \* two sessions: per session its query, tasks, futures and results
    cells,         \* two sessions: the list `jobs` of each running search_jobs
    provider_nulls \* whether the provider's results may hold a null for a field

vars == <<kind, http, job_role, pc, submitted, task, calls, outcome, future, finished,
          initialDone, collected, results, events, waited, request, domain,
          question_count, qpc, query_i, all_questions, questions, now, inCall, lastCallAt,
          minGap, ptask, pquery, wakeAt, stage, items_kind, arrived, target, unique_items,
          unique_again, ranked_items, capped_items, enhanced_questions, returned_items, returned_total,
          adapter, emit_raises,
          adapter_pc, adapter_query, adapter_jobs, adapter_log, adapter_return,
          clock_day, scored, sessions, cells, provider_nulls>>

jobVars == <<job_role, pc, submitted, task, calls, outcome, future, finished,
             initialDone, collected, results, waited>>

questionVars == <<domain, question_count, qpc, query_i, all_questions, questions>>

paceVars == <<now, inCall, lastCallAt, minGap, ptask, pquery, wakeAt>>

pipelineVars == <<stage, items_kind, arrived, target, unique_items, unique_again,
                  ranked_items, capped_items, enhanced_questions, returned_items,
                  returned_total>>

adapterVars == <<adapter, emit_raises, adapter_pc, adapter_query, adapter_jobs,
                 adapter_log, adapter_return>>

otherVars == <<clock_day, scored, sessions, cells, provider_nulls>>

----------------------------------------------------------------------------
(* The adapters of comprehensive_job_search, in submission order           *)

source_names == <<"linkedin", "naukri", "indeed", "freshersworld", "monster">>

Adapters == DOMAIN source_names

NumAdapters == Len(source_names)

\* What one run of an adapter's search_jobs can end with: it returns `jobs`,
\* or it raises after having gathered `jobs`.
Outcome(k, jobs) == [kind |-> k, jobs |-> jobs]

AdapterOutcomes(a) ==
    CASE a = 1 -> { Outcome("raise", <<1>>), Outcome("ok", <<1>>) }
      [] a = 2 -> { Outcome("raise", <<2>>), Outcome("ok", <<2>>) }
      [] a = 3 -> { Outcome("raise", <<>>), Outcome("ok", <<>>), Outcome("ok", <<3>>) }
      [] a = 4 -> { Outcome("raise", <<5>>), Outcome("ok", <<5, 4>>) }
                  \cup (IF provider_nulls THEN { Outcome("ok", <<10>>) } ELSE {})
      [] a = 5 -> { Outcome("raise", <<6>>), Outcome("ok", <<6>>) }

\* a _safe_search that keeps what was gathered before the exception
safe_search_keeps_partial(o) == o.jobs

\* _safe_search: the adapter's list, or [] when search_jobs raised
safe_search(o) == IF o.kind = "raise" THEN <<>> ELSE o.jobs

\* the request bodies' job_role values: '', ' ', '  ', 'a', ' a ', ' ml '
RequestRoles ==
    { <<>>, <<" ">>, <<" ", " ">>, <<"a">>, <<" ", "a", " ">>, <<" ","m","l"," ">> }

Event(name, source, count, total) ==
    [name |-> name, source |-> source, count |-> count, total |-> total]

NoSources == [n \in {} |-> <<>>]

\* the results dict built at the top of comprehensive_job_search; summary is
\* the empty sequence while the dict has no 'summary' key
NewResults ==
    [search_status |-> "in_progress", total_jobs |-> 0, sources |-> NoSources,
     all_jobs |-> <<>>, summary |-> <<>>]

----------------------------------------------------------------------------
(* POST /search-jobs                                                       *)

\* a route that forgets to strip the subject
clean_subject_unstripped(raw) == raw

\* data.get('job_role', '').strip(), data.get('domain', '').strip()
clean_subject(raw) == Strip(raw)

\* the two checks `if not job_role` and `if len(job_role) < 2`
subject_accepted(subject) == subject # <<>> /\ Len(subject) >= MinSubjectLen

NoRequest == [subject |-> <<>>, question_count |-> <<>>]

search_jobs_route(raw) ==
    /\ kind = "none"
    /\ kind' = "jobs"
    /\ request' = [subject |-> raw, question_count |-> <<>>]
    /\ IF subject_accepted(clean_subject(raw))
       THEN /\ http' = 200
            /\ job_role' = clean_subject(raw)
            /\ pc' = "created"
            /\ results' = NewResults
       ELSE /\ http' = 400
            /\ UNCHANGED <<job_role, pc, results>>
    /\ UNCHANGED <<submitted, task, calls, outcome, future, finished, initialDone, collected,
                   events, waited>>
    /\ UNCHANGED questionVars
    /\ UNCHANGED paceVars
    /\ UNCHANGED <<pipelineVars, adapterVars, otherVars>>

----------------------------------------------------------------------------
(* JobSearchEngine.comprehensive_job_search.  socketio.emit is the event   *)
(* sink: it records the event and returns.                                 *)

\* a guard that lets collection start once any task is submitted
some_submitted(n) == n >= 1

\* the loop over as_completed comes after the five executor.submit calls
all_submitted(n) == n = NumAdapters

Running == { a \in Adapters : task[a] = "running" }

Queued == { a \in Adapters : task[a] = "queued" }

DoneTasks == { a \in Adapters : task[a] = "done" }

CollectedSet == Range(collected)

\* the index i of `for i, future in enumerate(as_completed(search_tasks))`
loop_i == Len(collected)

\* a worker thread is free and a is the oldest task in the executor's queue
\* a pool that starts a thread per task
CanStart_unbounded(a) ==
    /\ task[a] = "queued"
    /\ \A b \in Queued : a <= b

CanStart(a) ==
    /\ task[a] = "queued"
    /\ Cardinality(Running) < MAX_WORKERS
    /\ \A b \in Queued : a <= b

\* as_completed: first the futures that were done when it was called, in the
\* order of a set; then the others in the order they complete
NextYield(a) ==
    /\ task[a] = "done"
    /\ a \notin CollectedSet
    /\ IF initialDone # {}
       THEN a \in initialDone
       ELSE finished # <<>> /\ a = Head(finished)

\* results['sources'][name] = jobs
SetSource(sources, name, jobs) ==
    [n \in (DOMAIN sources) \cup {name} |-> IF n = name THEN jobs ELSE sources[n]]

\* _generate_search_summary: total, number of sources, per-source counts
generate_search_summary(r) ==
    [total_jobs_found |-> r.total_jobs,
     sources_searched |-> Cardinality(DOMAIN r.sources),
     source_breakdown |-> [n \in DOMAIN r.sources |-> Len(r.sources[n])]]

\* socketio.emit('search_started', ...): the session leaves CREATED
EmitStarted ==
    /\ pc = "created"
    /\ events' = Append(events, Event("search_started", "", 0, 0))
    /\ pc' = "dispatching"
    /\ UNCHANGED <<kind, http, request, job_role, submitted, task, calls, outcome, future,
                   finished, initialDone, collected, results, waited>>
    /\ UNCHANGED questionVars
    /\ UNCHANGED paceVars
    /\ UNCHANGED <<pipelineVars, adapterVars, otherVars>>

\* executor.submit(self._safe_search, api, ...), one adapter after the other
Submit ==
    /\ pc = "dispatching"
    /\ submitted < NumAdapters
    /\ submitted' = submitted + 1
    /\ task' = [task EXCEPT ![submitted + 1] = "queued"]
    /\ UNCHANGED <<kind, http, request, job_role, pc, calls, outcome, future, finished,
                   initialDone, collected, results, events, waited>>
    /\ UNCHANGED questionVars
    /\ UNCHANGED paceVars
    /\ UNCHANGED <<pipelineVars, adapterVars, otherVars>>

\* a worker thread of the pool takes the next task and calls _safe_search
Start(a) ==
    /\ CanStart(a)
    /\ task' = [task EXCEPT ![a] = "running"]
    /\ calls' = [calls EXCEPT ![a] = @ + 1]
    /\ UNCHANGED <<kind, http, request, job_role, pc, submitted, outcome, future, finished,
                   initialDone, collected, results, events, waited>>
    /\ UNCHANGED questionVars
    /\ UNCHANGED paceVars
    /\ UNCHANGED <<pipelineVars, adapterVars, otherVars>>

\* _safe_search returns: the future completes with the adapter's list or []
Finish(a) ==
    /\ task[a] = "running"
    /\ \E o \in AdapterOutcomes(a) :
         /\ outcome' = [outcome EXCEPT ![a] = o]
         /\ future' = [future EXCEPT ![a] = safe_search(o)]
    /\ task' = [task EXCEPT ![a] = "done"]
    /\ finished' = IF pc = "collecting" THEN Append(finished, a) ELSE finished
    /\ UNCHANGED <<kind, http, request, job_role, pc, submitted, calls, initialDone,
                   collected, results, events, waited>>
    /\ UNCHANGED questionVars
    /\ UNCHANGED paceVars
    /\ UNCHANGED <<pipelineVars, adapterVars, otherVars>>

\* as_completed(search_tasks) is called: the session starts collecting
BeginCollect ==
    /\ pc = "dispatching"
    /\ all_submitted(submitted)
    /\ pc' = "collecting"
    /\ initialDone' = DoneTasks
    /\ waited' = 0
    /\ UNCHANGED <<kind, http, request, job_role, submitted, task, calls, outcome, future,
                   finished, collected, results, events>>
    /\ UNCHANGED questionVars
    /\ UNCHANGED paceVars
    /\ UNCHANGED <<pipelineVars, adapterVars, otherVars>>

\* one pass of the collection loop, for the future as_completed yields
Collect(a) ==
    /\ pc = "collecting"
    /\ NextYield(a)
    /\ LET source_jobs == future[a]
           source_name == source_names[loop_i + 1]
           merged == results.all_jobs \o Unscored(source_jobs)
       IN  /\ results' = [results EXCEPT
                            !.sources = SetSource(@, source_name, source_jobs),
                            !.all_jobs = merged]
           /\ events' = Append(events,
                          Event("source_completed", source_name, Len(source_jobs), Len(merged)))
    /\ collected' = Append(collected, a)
    /\ initialDone' = initialDone \ {a}
    /\ finished' = IF initialDone # {} THEN finished ELSE Tail(finished)
    /\ waited' = 0
    /\ pc' = IF Len(collected) + 1 = Len(source_names) THEN "ranking" ELSE "collecting"
    /\ UNCHANGED <<kind, http, request, job_role, submitted, task, calls, outcome, future>>
    /\ UNCHANGED questionVars
    /\ UNCHANGED paceVars
    /\ UNCHANGED <<pipelineVars, adapterVars, otherVars>>

\* _create_job_hash calls .lower() on the title and on the company of every
\* job of the list: a None raises AttributeError
ranking_raises(jobs) ==
    \E i \in DOMAIN jobs : \/ JobData[jobs[i].job].title = NoneValue
                           \/ JobData[jobs[i].job].company = NoneValue

\* a handler that leaves search_status as it is
search_failed_handler_silent(r) == r

\* the outer `except Exception`: results['search_status'] = 'failed'
search_failed_handler(r) == [r EXCEPT !.search_status = "failed"]

\* after the loop: deduplicate, rank, cap, and mark the session completed;
\* when the ranking raises, the outer handler marks the session failed and
\* emits search_failed
Rank ==
    /\ pc = "ranking"
    /\ IF ranking_raises(results.all_jobs)
       THEN /\ results' = search_failed_handler(results)
            /\ events' = events \o << Event("thought", "", 0, 0),
                                      Event("search_failed", "", 0, 0) >>
            /\ pc' = "done"
       ELSE /\ LET ranked == remove_duplicates_and_rank(results.all_jobs, job_role)
               IN  results' = [results EXCEPT !.all_jobs = ranked,
                                              !.total_jobs = Len(ranked),
                                              !.search_status = "completed"]
            /\ events' = Append(events, Event("thought", "", 0, 0))
            /\ pc' = "summarising"
    /\ UNCHANGED <<kind, http, request, job_role, submitted, task, calls, outcome, future,
                   finished, initialDone, collected, waited>>
    /\ UNCHANGED questionVars
    /\ UNCHANGED paceVars
    /\ UNCHANGED <<pipelineVars, adapterVars, otherVars>>

\* the summary and socketio.emit('search_completed', results)
Finalize ==
    /\ pc = "summarising"
    /\ results' = [results EXCEPT !.summary = <<generate_search_summary(results)>>]
    /\ events' = Append(events, Event("search_completed", "", results.total_jobs, results.total_jobs))
    /\ pc' = "done"
    /\ UNCHANGED <<kind, http, request, job_role, submitted, task, calls, outcome, future,
                   finished, initialDone, collected, waited>>
    /\ UNCHANGED questionVars
    /\ UNCHANGED paceVars
    /\ UNCHANGED <<pipelineVars, adapterVars, otherVars>>

\* the Orchestrator is inside as_completed with no completed future to yield
Blocked == pc = "collecting" /\ \A a \in Adapters : ~NextYield(a)

\* Time passes while the Orchestrator is blocked.  Nothing in the session reads
\* the clock, so only the length of the wait is kept; the pool's worker threads
\* take a queued task as soon as one of them is free.
Tick ==
    /\ Blocked
    /\ \A a \in Adapters : ~CanStart(a)
    /\ waited + TickSeconds <= MaxWait
    /\ waited' = waited + TickSeconds
    /\ UNCHANGED <<kind, http, request, job_role, pc, submitted, task, calls, outcome, future,
                   finished, initialDone, collected, results, events>>
    /\ UNCHANGED questionVars
    /\ UNCHANGED paceVars
    /\ UNCHANGED <<pipelineVars, adapterVars, otherVars>>

----------------------------------------------------------------------------
(* InterviewQuestionAPI: the questions a search result or its page can     *)
(* yield, and the pipeline that deduplicates, scores and caps them.        *)

Q(text, credibility, year, qtype, difficulty) ==
    [question |-> text, credibility_score |-> credibility, year |-> year,
     question_type |-> qtype, difficulty |-> difficulty,
     domain |-> <<"S","Q","L">>]

\* year 0 stands for None (no year found in the text); 'domain' is the domain
\* of the search that extracted the question; question 12 is question 1 up to
\* letter case and punctuation; questions 13 to 16 come from a search for
\* 'DSA' and score 0, 3, 4 and 4 against 'SQL'
QuestionData ==
    << Q(<<"Q","1","?">>, 9, 2024, "Coding", "Medium"),
       Q(<<"Q","2","?">>, 8, 2023, "Theory", "Easy"),
       Q(<<"Q","3","?">>, 0, 0, "Theory", "Easy"),
       Q(<<"Q","4","?">>, 7, 2021, "System Design", "Hard"),
       Q(<<"Q","5","?">>, 3, 2019, "Theory", "Medium"),
       Q(<<"Q","6","?">>, 9, 2024, "Coding", "Hard"),
       Q(<<"Q","7","?">>, 6, 2022, "Theory", "Easy"),
       Q(<<"Q","8","?">>, 1, 0, "Coding", "Medium"),
       Q(<<"Q","9","?">>, 4, 2020, "Theory", "Easy"),
       Q(<<"Q","a","?">>, 8, 2023, "Coding", "Easy"),
       Q(<<"Q","b","?">>, 0, 0, "General", "Easy"),
       Q(<<"q","1">>, 2, 2022, "Theory", "Easy"),
       [Q(<<"Q","d","?">>, 0, 0, "Theory", "Easy") EXCEPT !.domain = <<"D","S","A">>],
       [Q(<<"Q","e","?">>, 2, 2022, "Theory", "Easy") EXCEPT !.domain = <<"D","S","A">>],
       [Q(<<"Q","f","?">>, 3, 2021, "Theory", "Easy") EXCEPT !.domain = <<"D","S","A">>],
       [Q(<<"Q","g","?">>, 0, 0, "Coding", "Medium") EXCEPT !.domain = <<"D","S","A">>] >>

QuestionIds == DOMAIN QuestionData

\* one organic result: the questions extracted from its title and snippet,
\* and the questions scraped from its page
SearchResult(ext, page) == [ext |-> ext, page |-> page]

ResultA == SearchResult(<<1, 2, 3>>, <<4, 5, 6, 7>>)

ResultB == SearchResult(<<8, 12>>, <<9, 10, 11>>)

\* what one GoogleSearch call can end with: it raises, or it returns results
QueryOutcomes ==
    { [failed |-> TRUE, results |-> <<>>],
      [failed |-> FALSE, results |-> <<>>],
      [failed |-> FALSE, results |-> <<ResultA>>],
      [failed |-> FALSE, results |-> <<ResultB>>],
      [failed |-> FALSE, results |-> <<ResultA, ResultB>>] }

\* search_queries[:5]
MaxQueries == 5

\* the loop over results['organic_results'] with its three limits
RECURSIVE AddResults(_, _, _)
AddResults(all, rs, count) ==
    IF rs = <<>> \/ Len(all) >= count THEN all
    ELSE LET withExt == all \o SliceTo(Head(rs).ext, count - Len(all))
             withPage == withExt \o SliceTo(Head(rs).page, count - Len(withExt))
         IN  AddResults(withPage, Tail(rs), count)

\* hashlib.md5 is taken to be collision-free: the digest is represented by
\* the normalized text that is hashed
question_hash(q) == CollapseSpaces(StripPunct(Strip(Lower(q.question))))

\* a loop that deletes a duplicate from the list it iterates over, so that
\* the element after each deleted one is never examined
RECURSIVE DedupQuestions_in_place(_, _)
DedupQuestions_in_place(qs, seen_hashes) ==
    IF qs = <<>> THEN <<>>
    ELSE LET h == question_hash(QuestionData[Head(qs)])
         IN  IF h \notin seen_hashes
             THEN <<Head(qs)>> \o DedupQuestions_in_place(Tail(qs), seen_hashes \cup {h})
             ELSE IF Tail(qs) = <<>> THEN <<>>
                  ELSE <<Head(Tail(qs))>>
                       \o DedupQuestions_in_place(Tail(Tail(qs)), seen_hashes)

RECURSIVE DedupQuestions(_, _)
DedupQuestions(qs, seen_hashes) ==
    IF qs = <<>> THEN <<>>
    ELSE LET h == question_hash(QuestionData[Head(qs)])
         IN  IF h \notin seen_hashes
             THEN <<Head(qs)>> \o DedupQuestions(Tail(qs), seen_hashes \cup {h})
             ELSE DedupQuestions(Tail(qs), seen_hashes)

remove_duplicate_questions(qs) == DedupQuestions(qs, {})

\* The question's 'domain' is the domain searched for and its 'company' is
\* the company searched for (None in this model), as the extractors set them.
calculate_relevance_score(q, dom) ==
      (IF Contains(Lower(dom), Lower(q.question)) \/ Contains(Lower(dom), Lower(q.domain))
       THEN 5 ELSE 0)
    + q.credibility_score
    + (IF q.year # 0 /\ q.year >= 2023 THEN 3
       ELSE IF q.year # 0 /\ q.year >= 2020 THEN 1 ELSE 0)
    + (IF q.question_type \in {"Coding", "System Design"} THEN 2 ELSE 0)
    + (IF q.difficulty = "Medium" THEN 2
       ELSE IF q.difficulty = "Hard" THEN 1 ELSE 0)

\* a filter that keeps the questions scoring 3
RECURSIVE ScoreAndFilter_inclusive(_, _)
ScoreAndFilter_inclusive(qs, dom) ==
    IF qs = <<>> THEN <<>>
    ELSE LET score == calculate_relevance_score(QuestionData[Head(qs)], dom)
         IN  (IF score >= RelevanceThreshold
              THEN <<[q |-> Head(qs), relevance_score |-> score]>> ELSE <<>>)
             \o ScoreAndFilter_inclusive(Tail(qs), dom)

RECURSIVE ScoreAndFilter(_, _)
ScoreAndFilter(qs, dom) ==
    IF qs = <<>> THEN <<>>
    ELSE LET score == calculate_relevance_score(QuestionData[Head(qs)], dom)
         IN  (IF score > RelevanceThreshold
              THEN <<[q |-> Head(qs), relevance_score |-> score]>> ELSE <<>>)
             \o ScoreAndFilter(Tail(qs), dom)

filter_relevant_questions(qs, dom) == SortByScoreDesc(ScoreAndFilter(qs, dom))

\* the tail of InterviewQuestionAPI.search_interview_questions: deduplicate,
\* filter, cap; the enhancement step gives every question a solution and
\* keeps the list as it is
api_result(all, dom, count) ==
    SliceTo(filter_relevant_questions(remove_duplicate_questions(all), dom), count)

\* JobSearchEngine calls interview_api.search_interview_questions(domain,
\* company, difficulty): the API's question_count keeps its default
api_question_count(count) == DefaultQuestionCount

----------------------------------------------------------------------------
(* POST /interview-questions                                               *)

valid_domains ==
    { <<"D","S","A">>,
      <<"S","Q","L">>,
      <<"O","S">>,
      <<"C","N">>,
      <<"D","B","M","S">>,
      <<"M","a","c","h","i","n","e"," ","L","e","a","r","n","i","n","g">>,
      <<"D","e","e","p"," ","L","e","a","r","n","i","n","g">>,
      <<"P","y","t","h","o","n">>,
      <<"J","a","v","a">>,
      <<"S","y","s","t","e","m"," ","D","e","s","i","g","n">>,
      <<"J","a","v","a","S","c","r","i","p","t">>,
      <<"R","e","a","c","t">>,
      <<"N","o","d","e",".","j","s">>,
      <<"C","l","o","u","d"," ","C","o","m","p","u","t","i","n","g">>,
      <<"D","e","v","O","p","s">>,
      <<"C","y","b","e","r","s","e","c","u","r","i","t","y">>,
      <<"B","l","o","c","k","c","h","a","i","n">> }

\* the request bodies' domain values: '', ' ', 'X', ' X ', 'Cobol', 'sql', ' SQL '
RequestDomains ==
    { <<>>, <<" ">>, <<"X">>, <<" ","X"," ">>, <<"C","o","b","o","l">>,
      <<"s","q","l">>, <<" ","S","Q","L"," ">> }

\* the request bodies' question_count: absent, or an integer
RequestCounts ==
    { <<>> } \cup { <<n>> : n \in (0 - MaxCountBelow)..(HardMaxQuestions + 2) }

\* min(data.get('question_count', 10), 20)
parse_question_count(count) ==
    Min2(IF count = <<>> THEN DefaultQuestionCount ELSE count[1], HardMaxQuestions)

interview_questions_route(raw, count) ==
    /\ kind = "none"
    /\ kind' = "questions"
    /\ request' = [subject |-> raw, question_count |-> count]
    /\ IF subject_accepted(clean_subject(raw)) /\ clean_subject(raw) \in valid_domains
       THEN /\ http' = 200
            /\ domain' = clean_subject(raw)
            /\ question_count' = parse_question_count(count)
            /\ qpc' = "started"
       ELSE /\ http' = 400
            /\ UNCHANGED <<domain, question_count, qpc>>
    /\ UNCHANGED <<query_i, all_questions, questions, events>>
    /\ UNCHANGED jobVars
    /\ UNCHANGED paceVars
    /\ UNCHANGED <<pipelineVars, adapterVars, otherVars>>

----------------------------------------------------------------------------
(* JobSearchEngine.search_interview_questions and the API it calls         *)

\* socketio.emit('interview_search_started', ...), then the API is entered
QBegin ==
    /\ qpc = "started"
    /\ events' = Append(events, Event("interview_search_started", "", question_count, 0))
    /\ qpc' = "collecting"
    /\ query_i' = 0
    /\ all_questions' = <<>>
    /\ UNCHANGED <<kind, http, request, domain, question_count, questions>>
    /\ UNCHANGED jobVars
    /\ UNCHANGED paceVars
    /\ UNCHANGED <<pipelineVars, adapterVars, otherVars>>

\* one pass of the loop over search_queries[:5]: break when enough questions
\* are collected, else one GoogleSearch call and what its results yield
QQuery ==
    /\ qpc = "collecting"
    /\ LET count == api_question_count(question_count)
       IN  IF Len(all_questions) >= count
           THEN /\ qpc' = "processing"
                /\ UNCHANGED <<query_i, all_questions>>
           ELSE /\ \E o \in QueryOutcomes :
                     all_questions' = IF o.failed THEN all_questions
                                      ELSE AddResults(all_questions, o.results, count)
                /\ query_i' = query_i + 1
                /\ qpc' = IF query_i + 1 = MaxQueries THEN "processing" ELSE "collecting"
    /\ UNCHANGED <<kind, http, request, domain, question_count, questions, events>>
    /\ UNCHANGED jobVars
    /\ UNCHANGED paceVars
    /\ UNCHANGED <<pipelineVars, adapterVars, otherVars>>

\* the API returns its capped list; the engine slices it to the requested
\* count and emits interview_search_completed
QFinish ==
    /\ qpc = "processing"
    /\ LET returned == api_result(all_questions, domain, api_question_count(question_count))
           limited == SliceTo(returned, question_count)
       IN  /\ questions' = limited
           /\ events' = Append(events,
                          Event("interview_search_completed", "", Len(limited), Len(limited)))
    /\ qpc' = "done"
    /\ UNCHANGED <<kind, http, request, domain, question_count, query_i, all_questions>>
    /\ UNCHANGED jobVars
    /\ UNCHANGED paceVars
    /\ UNCHANGED <<pipelineVars, adapterVars, otherVars>>

----------------------------------------------------------------------------
(* Specification of one request                                            *)

PaceIdle ==
    /\ now = 0
    /\ inCall = {}
    /\ lastCallAt = -1
    /\ minGap = REQUEST_DELAY
    /\ ptask = [a \in Adapters |-> "queued"]
    /\ pquery = [a \in Adapters |-> 0]
    /\ wakeAt = [a \in Adapters |-> 0]

\* no pipeline run and no single adapter run
PipelineIdle ==
    /\ stage = "off"
    /\ items_kind = "jobs"
    /\ arrived = <<>>
    /\ target = 0
    /\ unique_items = <<>>
    /\ unique_again = <<>>
    /\ ranked_items = <<>>
    /\ capped_items = <<>>
    /\ enhanced_questions = <<>>
    /\ returned_items = <<>>
    /\ returned_total = 0

AdapterIdle ==
    /\ adapter = 1
    /\ emit_raises = FALSE
    /\ adapter_pc = "off"
    /\ adapter_query = 0
    /\ adapter_jobs = <<>>
    /\ adapter_log = <<>>
    /\ adapter_return = <<>>

\* no scoring call yet, no second session, and every field of every result of
\* the provider is a string
OtherIdle ==
    /\ clock_day = Today
    /\ scored = <<>>
    /\ sessions = <<>>
    /\ cells = <<>>
    /\ provider_nulls = FALSE

\* no request yet
RequestIdle ==
    /\ kind = "none"
    /\ http = 0
    /\ request = NoRequest
    /\ job_role = <<>>
    /\ pc = "idle"
    /\ submitted = 0
    /\ task = [a \in Adapters |-> "none"]
    /\ calls = [a \in Adapters |-> 0]
    /\ outcome = [a \in Adapters |-> Outcome("pending", <<>>)]
    /\ future = [a \in Adapters |-> <<>>]
    /\ finished = <<>>
    /\ initialDone = {}
    /\ collected = <<>>
    /\ results = NewResults
    /\ events = <<>>
    /\ waited = 0
    /\ domain = <<>>
    /\ question_count = 0
    /\ qpc = "idle"
    /\ query_i = 0
    /\ all_questions = <<>>
    /\ questions = <<>>

Init ==
    /\ RequestIdle
    /\ PaceIdle
    /\ PipelineIdle
    /\ AdapterIdle
    /\ OtherIdle

Next ==
    \/ \E raw \in RequestRoles : search_jobs_route(raw)
    \/ EmitStarted
    \/ Submit
    \/ \E a \in Adapters : Start(a)
    \/ \E a \in Adapters : Finish(a)
    \/ BeginCollect
    \/ \E a \in Adapters : Collect(a)
    \/ Rank
    \/ Finalize
    \/ Tick
    \/ \E raw \in RequestDomains, count \in RequestCounts : interview_questions_route(raw, count)
    \/ QBegin
    \/ QQuery
    \/ QFinish

Spec == Init /\ [][Next]_vars

\* the same requests and sessions when a result of the provider may come with
\* "title": null
InitNulls ==
    /\ RequestIdle
    /\ PaceIdle
    /\ PipelineIdle
    /\ AdapterIdle
    /\ clock_day = Today
    /\ scored = <<>>
    /\ sessions = <<>>
    /\ cells = <<>>
    /\ provider_nulls = TRUE

SpecNulls == InitNulls /\ [][Next]_vars

\* The executor's worker threads take queued tasks whenever a worker is
\* free, and a running search_jobs comes to an end: its loops are bounded
\* and its network calls return or raise.  The thread of the session keeps
\* submitting until all five tasks are submitted.
Fairness ==
    /\ WF_vars(EmitStarted)
    /\ WF_vars(Submit)
    /\ \A a \in Adapters : WF_vars(Start(a))
    /\ \A a \in Adapters : WF_vars(Finish(a))

\* The session up to the completion of its tasks: the request, the dispatch
\* and the worker threads.  The collection loop only reads the futures; it
\* takes no step that starts, queues or ends a task.
NextPool ==
    \/ \E raw \in RequestRoles : search_jobs_route(raw)
    \/ EmitStarted
    \/ Submit
    \/ \E a \in Adapters : Start(a)
    \/ \E a \in Adapters : Finish(a)

SpecPool == Init /\ [][NextPool]_vars /\ Fairness

----------------------------------------------------------------------------
(* The adapters' calls to the search provider.  Every adapter queries the  *)
(* same provider (GoogleSearch with SERPAPI_API_KEY) from its worker       *)
(* thread: LinkedIn issues 3 sub-queries, Naukri and Indeed 2, FreshersWorld *)
(* and Monster 1.  The first three sleep REQUEST_DELAY after a call that   *)
(* returned; a call that raised goes straight on to the next sub-query.    *)

SubQueries == <<3, 2, 2, 1, 1>>

\* the adapters whose loop has time.sleep(REQUEST_DELAY) after the call
Sleeps(a) == a \in {1, 2, 3}

PActive == { a \in Adapters : ptask[a] \in {"call", "inflight", "sleep"} }

PCanStart(a) ==
    /\ ptask[a] = "queued"
    /\ Cardinality(PActive) < MAX_WORKERS
    /\ \A b \in Adapters : ptask[b] = "queued" => a <= b

\* the adapter goes on to its next sub-query, or returns
PAdvance(a) ==
    /\ ptask' = [ptask EXCEPT ![a] = IF pquery[a] < SubQueries[a] THEN "call" ELSE "done"]
    /\ pquery' = [pquery EXCEPT ![a] = IF pquery[a] < SubQueries[a] THEN @ + 1 ELSE @]

\* a worker thread takes the adapter's task
PStart(a) ==
    /\ PCanStart(a)
    /\ ptask' = [ptask EXCEPT ![a] = "call"]
    /\ pquery' = [pquery EXCEPT ![a] = 1]
    /\ UNCHANGED <<now, inCall, lastCallAt, minGap, wakeAt>>
    /\ UNCHANGED <<kind, http, request, events>>
    /\ UNCHANGED jobVars
    /\ UNCHANGED questionVars
    /\ UNCHANGED <<pipelineVars, adapterVars, otherVars>>

\* search.get_dict() is entered: the request goes to the provider.  Nothing
\* is acquired before it.
PCallBegin(a) ==
    /\ ptask[a] = "call"
    /\ ptask' = [ptask EXCEPT ![a] = "inflight"]
    /\ inCall' = inCall \cup {a}
    /\ minGap' = IF lastCallAt >= 0 THEN Min2(minGap, now - lastCallAt) ELSE minGap
    /\ lastCallAt' = now
    /\ UNCHANGED <<now, pquery, wakeAt>>
    /\ UNCHANGED <<kind, http, request, events>>
    /\ UNCHANGED jobVars
    /\ UNCHANGED questionVars
    /\ UNCHANGED <<pipelineVars, adapterVars, otherVars>>

\* search.get_dict() returns or raises
PCallEnd(a) ==
    /\ ptask[a] = "inflight"
    /\ inCall' = inCall \ {a}
    /\ \E ok \in BOOLEAN :
         IF ok /\ Sleeps(a)
         THEN /\ ptask' = [ptask EXCEPT ![a] = "sleep"]
              /\ wakeAt' = [wakeAt EXCEPT ![a] = now + REQUEST_DELAY]
              /\ UNCHANGED pquery
         ELSE /\ PAdvance(a)
              /\ UNCHANGED wakeAt
    /\ UNCHANGED <<now, lastCallAt, minGap>>
    /\ UNCHANGED <<kind, http, request, events>>
    /\ UNCHANGED jobVars
    /\ UNCHANGED questionVars
    /\ UNCHANGED <<pipelineVars, adapterVars, otherVars>>

\* time.sleep(REQUEST_DELAY) returns
PWake(a) ==
    /\ ptask[a] = "sleep"
    /\ now >= wakeAt[a]
    /\ PAdvance(a)
    /\ wakeAt' = [wakeAt EXCEPT ![a] = 0]
    /\ UNCHANGED <<now, inCall, lastCallAt, minGap>>
    /\ UNCHANGED <<kind, http, request, events>>
    /\ UNCHANGED jobVars
    /\ UNCHANGED questionVars
    /\ UNCHANGED <<pipelineVars, adapterVars, otherVars>>

\* one second passes
PTick ==
    /\ \E a \in Adapters : ptask[a] # "done"
    /\ now < MaxPaceTime
    /\ now' = now + 1
    /\ UNCHANGED <<inCall, lastCallAt, minGap, ptask, pquery, wakeAt>>
    /\ UNCHANGED <<kind, http, request, events>>
    /\ UNCHANGED jobVars
    /\ UNCHANGED questionVars
    /\ UNCHANGED <<pipelineVars, adapterVars, otherVars>>

\* the five tasks of one session in the worker pool, from dispatch on
SpecPace ==
    /\ Init
    /\ [][ \/ \E a \in Adapters : PStart(a)
           \/ \E a \in Adapters : PCallBegin(a)
           \/ \E a \in Adapters : PCallEnd(a)
           \/ \E a \in Adapters : PWake(a)
           \/ PTick ]_vars

----------------------------------------------------------------------------
(* The pipeline from the merged items to the returned list, one stage at a *)
(* time, for any merged list: the job pipeline is                          *)
(* _remove_duplicates_and_rank; the question pipeline is the tail of       *)
(* InterviewQuestionAPI.search_interview_questions followed by the slice   *)
(* of JobSearchEngine.search_interview_questions.                          *)

\* longest merged list
MaxArrived == 3

\* every third target is larger than any merged list
PipelineTargets == {1, 2, DefaultQuestionCount}

\* the jobs a short merged list is drawn from: jobs 1 to 9
PipelineJobs == { id \in JobIds : id < 10 }

\* the questions a merged list is drawn from: 12 is 1 up to case and
\* punctuation, 2 and 4 score the same
PipelineQuestions == {1, 2, 4, 5, 12}

\* the job_role and the domain of the session
PipelineRole == <<"m","l">>

PipelineDomain == <<"S","Q","L">>

SeqsUpTo(S, n) == UNION { [1..k -> S] : k \in 0..n }

\* what the call to the solution generator can end with: a 200 response
\* with a text, requests.post raising (a timeout is requests' Timeout
\* exception), a response whose status is not 200, and a 200 response whose
\* JSON does not hold candidates[0].content.parts[0].text
EnrichOutcomes ==
    { [kind |-> "ok",        text |-> <<" ","s","1"," ">>],
      [kind |-> "ok",        text |-> <<"s","2">>],
      [kind |-> "exception", text |-> <<>>],
      [kind |-> "timeout",   text |-> <<>>],
      [kind |-> "status",    text |-> <<>>],
      [kind |-> "malformed", text |-> <<>>] }

\* _get_fallback_solution: a fixed text around the question
get_fallback_solution(question) ==
    <<"\n","#","#"," ","S","o","l","u","t","i","o","n"," ","f","o","r",":"," ">>
        \o question \o <<"\n">>

\* a generator that lets the failure through as an empty solution
generate_comprehensive_solution_no_fallback(question, o) ==
    IF o.kind = "ok" THEN Strip(o.text) ELSE <<>>

\* _generate_comprehensive_solution: the stripped text of a 200 response;
\* the fallback for any other status and for every exception
generate_comprehensive_solution(question, o) ==
    IF o.kind = "ok" THEN Strip(o.text) ELSE get_fallback_solution(question)

\* one pass of the loop of _enhance_questions_with_detailed_solutions
enhance_question(item, o) ==
    [q |-> item.q, relevance_score |-> item.relevance_score,
     solution |-> generate_comprehensive_solution(QuestionData[item.q].question, o)]

PipelineArrived ==
    /\ stage = "arrived"
    /\ items_kind \in {"jobs", "questions"}
    /\ arrived \in SeqsUpTo(IF items_kind = "jobs" THEN PipelineJobs ELSE PipelineQuestions,
                            MaxArrived)
    /\ target \in (IF items_kind = "jobs" THEN {0} ELSE PipelineTargets)
    /\ unique_items = <<>>
    /\ unique_again = <<>>
    /\ ranked_items = <<>>
    /\ capped_items = <<>>
    /\ enhanced_questions = <<>>
    /\ returned_items = <<>>
    /\ returned_total = 0

\* the deduplication loop; unique_again is the same loop run on what it kept
Deduplicate ==
    /\ stage = "arrived"
    /\ stage' = "deduped"
    /\ unique_items' = IF items_kind = "jobs"
                       THEN DedupJobs(Unscored(arrived), {}, PipelineRole)
                       ELSE remove_duplicate_questions(arrived)
    /\ unique_again' = IF items_kind = "jobs"
                       THEN DedupJobs(unique_items', {}, PipelineRole)
                       ELSE remove_duplicate_questions(unique_items')
    /\ UNCHANGED <<items_kind, arrived, target, ranked_items, capped_items,
                   enhanced_questions, returned_items, returned_total>>
    /\ UNCHANGED <<kind, http, request, events>>
    /\ UNCHANGED <<jobVars, questionVars, paceVars, adapterVars, otherVars>>

\* unique_jobs.sort(...), or _filter_relevant_questions with its sort
SortStage ==
    /\ stage = "deduped"
    /\ stage' = "ranked"
    /\ ranked_items' = IF items_kind = "jobs"
                       THEN SortByScoreDesc(unique_items)
                       ELSE filter_relevant_questions(unique_items, PipelineDomain)
    /\ UNCHANGED <<items_kind, arrived, target, unique_items, unique_again, capped_items,
                   enhanced_questions, returned_items, returned_total>>
    /\ UNCHANGED <<kind, http, request, events>>
    /\ UNCHANGED <<jobVars, questionVars, paceVars, adapterVars, otherVars>>

\* unique_jobs[:50], or relevant_questions[:question_count] inside the API
CapStage ==
    /\ stage = "ranked"
    /\ stage' = IF items_kind = "jobs" THEN "capped" ELSE "enhancing"
    /\ capped_items' = IF items_kind = "jobs"
                       THEN SliceTo(ranked_items, JobCap)
                       ELSE SliceTo(ranked_items, api_question_count(target))
    /\ UNCHANGED <<items_kind, arrived, target, unique_items, unique_again, ranked_items,
                   enhanced_questions, returned_items, returned_total>>
    /\ UNCHANGED <<kind, http, request, events>>
    /\ UNCHANGED <<jobVars, questionVars, paceVars, adapterVars, otherVars>>

\* the next question of the enhancement loop gets its solution
Enhance ==
    /\ stage = "enhancing"
    /\ Len(enhanced_questions) < Len(capped_items)
    /\ \E o \in EnrichOutcomes :
         enhanced_questions' =
             Append(enhanced_questions,
                    enhance_question(capped_items[Len(enhanced_questions) + 1], o))
    /\ UNCHANGED <<stage, items_kind, arrived, target, unique_items, unique_again,
                   ranked_items, capped_items, returned_items, returned_total>>
    /\ UNCHANGED <<kind, http, request, events>>
    /\ UNCHANGED <<jobVars, questionVars, paceVars, adapterVars, otherVars>>

\* _remove_duplicates_and_rank returns and results['total_jobs'] is set to
\* len(results['all_jobs']); or the API returns enhanced_questions and the
\* engine keeps questions[:question_count]
ReturnStage ==
    /\ \/ stage = "capped"
       \/ stage = "enhancing" /\ Len(enhanced_questions) = Len(capped_items)
    /\ stage' = "returned"
    /\ returned_items' = IF items_kind = "jobs" THEN capped_items
                         ELSE SliceTo(enhanced_questions, target)
    /\ returned_total' = IF items_kind = "jobs" THEN Len(returned_items') ELSE 0
    /\ UNCHANGED <<items_kind, arrived, target, unique_items, unique_again, ranked_items,
                   capped_items, enhanced_questions>>
    /\ UNCHANGED <<kind, http, request, events>>
    /\ UNCHANGED <<jobVars, questionVars, paceVars, adapterVars, otherVars>>

InitPipeline ==
    /\ RequestIdle
    /\ PaceIdle
    /\ AdapterIdle
    /\ OtherIdle
    /\ PipelineArrived

SpecPipeline ==
    /\ InitPipeline
    /\ [][Deduplicate \/ SortStage \/ CapStage \/ Enhance \/ ReturnStage]_vars

\* the merged list of a session in which the adapters return as many jobs as
\* their caps allow: all of them, or some of them after a job without url and
\* two copies of one job; or a short list; _remove_duplicates_and_rank is
\* applied to it
InitCap ==
    /\ RequestIdle
    /\ PaceIdle
    /\ AdapterIdle
    /\ OtherIdle
    /\ stage = "arrived"
    /\ items_kind = "jobs"
    /\ arrived \in { [k \in 1..n |-> 10 + k] : n \in (JobCap - 1)..SumSeq(adapter_caps) }
                   \cup { <<9, 4, 4>> \o [k \in 1..n |-> 10 + k] : n \in {JobCap - 1, JobCap} }
                   \cup SeqsUpTo(PipelineJobs, MaxArrived)
    /\ target = 0
    /\ unique_items = <<>>
    /\ unique_again = <<>>
    /\ ranked_items = <<>>
    /\ capped_items = <<>>
    /\ enhanced_questions = <<>>
    /\ returned_items = <<>>
    /\ returned_total = 0

SpecCap == InitCap /\ [][Deduplicate \/ SortStage \/ CapStage \/ ReturnStage]_vars

\* the merged list of a question search for 'SQL' that holds questions
\* extracted by a search for another domain: question 2 scores 16, questions
\* 13 to 16 score 0, 3, 4 and 4
InitFilter ==
    /\ RequestIdle
    /\ PaceIdle
    /\ AdapterIdle
    /\ OtherIdle
    /\ stage = "arrived"
    /\ items_kind = "questions"
    /\ arrived \in SeqsUpTo({2, 13, 14, 15, 16}, MaxArrived)
    /\ target \in PipelineTargets
    /\ unique_items = <<>>
    /\ unique_again = <<>>
    /\ ranked_items = <<>>
    /\ capped_items = <<>>
    /\ enhanced_questions = <<>>
    /\ returned_items = <<>>
    /\ returned_total = 0

SpecFilter ==
    /\ InitFilter
    /\ [][Deduplicate \/ SortStage \/ CapStage \/ Enhance \/ ReturnStage]_vars

----------------------------------------------------------------------------
(* One adapter's search_jobs, called through _safe_search, sub-query by    *)
(* sub-query.  A sub-query is one GoogleSearch call and the loop over its  *)
(* results; it can raise in the call or in the loop, after some jobs were  *)
(* appended to `jobs`.                                                     *)

\* most jobs the results of one sub-query add
MaxAppended == 2

\* longest a provider call takes, in seconds
MaxCallSeconds == 1

\* how one sub-query can run: n jobs appended, then the end of the loop or
\* an exception; an exception of the provider call comes before any job
SubQueryRuns ==
    { [kind |-> k, appended |-> n] : k \in {"ok", "loop_raises"}, n \in 0..MaxAppended }
        \cup { [kind |-> "provider_raises", appended |-> 0] }

\* the n jobs sub-query q appends
AppendedJobs(q, n) == [k \in 1..n |-> <<q, k>>]

\* emit_status catches every Exception of socketio.emit and logs it
emit_status_propagates(raises) == FALSE

\* an adapter whose search_jobs has the outer handler only
continues_never(a) == FALSE

\* LinkedIn, Naukri and Indeed run each sub-query in a try of its own whose
\* handler goes on with the next query; FreshersWorld and Monster have the
\* outer handler only, which returns []
continues_after_failure(a) == a \in {1, 2, 3}

\* a loop that issues a sub-query again when it raised
next_sub_query_retry(q, raised) == IF raised THEN q ELSE q + 1

\* `for i, query in enumerate(search_queries[:3])`: the loop moves on to the
\* next query whether the pass ended normally or by `continue`
next_sub_query(q, raised) == q + 1

AdapterCalled ==
    /\ adapter \in Adapters
    /\ emit_raises \in BOOLEAN
    /\ adapter_pc = "running"
    /\ adapter_query = 0
    /\ adapter_jobs = <<>>
    /\ adapter_log = <<>>
    /\ adapter_return = <<>>

\* the next sub-query runs: the provider call is issued at `now` and takes
\* `took` seconds; time.sleep(REQUEST_DELAY) is the last statement of the try
\* block, reached only when nothing raised before it
AdapterQuery ==
    /\ adapter_pc = "running"
    /\ adapter_query < SubQueries[adapter]
    /\ \E run \in SubQueryRuns, took \in 0..MaxCallSeconds :
         LET new_jobs == AppendedJobs(adapter_query + 1, run.appended)
             raised == run.kind # "ok" \/ emit_status_propagates(emit_raises)
         IN  /\ adapter_query' = next_sub_query(adapter_query, raised)
             /\ adapter_log' = Append(adapter_log,
                                      [query |-> adapter_query + 1, at |-> now,
                                       raised |-> raised, appended |-> new_jobs])
             /\ now' = now + took + (IF ~raised /\ Sleeps(adapter) THEN REQUEST_DELAY ELSE 0)
             /\ adapter_jobs' = adapter_jobs \o new_jobs
             /\ IF raised /\ ~continues_after_failure(adapter)
                THEN /\ adapter_pc' = "returned"
                     /\ adapter_return' = safe_search(Outcome("ok", <<>>))
                ELSE UNCHANGED <<adapter_pc, adapter_return>>
    /\ UNCHANGED <<adapter, emit_raises>>
    /\ UNCHANGED <<kind, http, request, events>>
    /\ UNCHANGED <<inCall, lastCallAt, minGap, ptask, pquery, wakeAt>>
    /\ UNCHANGED <<jobVars, questionVars, pipelineVars, otherVars>>

\* after the last sub-query: return jobs[:cap], handed on by _safe_search
AdapterReturn ==
    /\ adapter_pc = "running"
    /\ adapter_query = SubQueries[adapter]
    /\ adapter_pc' = "returned"
    /\ adapter_return' =
           safe_search(Outcome("ok", SliceTo(adapter_jobs, adapter_caps[adapter])))
    /\ UNCHANGED <<adapter, emit_raises, adapter_query, adapter_jobs, adapter_log>>
    /\ UNCHANGED <<kind, http, request, events>>
    /\ UNCHANGED <<jobVars, questionVars, paceVars, pipelineVars, otherVars>>

InitAdapter ==
    /\ RequestIdle
    /\ PaceIdle
    /\ PipelineIdle
    /\ OtherIdle
    /\ AdapterCalled

NextAdapter ==
    \/ AdapterQuery
    \/ AdapterReturn

SpecAdapter == InitAdapter /\ [][NextAdapter]_vars

\* A session seen from its worker pool, or one of its tasks seen from
\* inside: the pool takes its steps while no task is followed from inside.
SpecTasks ==
    /\ Init \/ InitAdapter
    /\ [][(adapter_pc = "off" /\ NextPool) \/ NextAdapter]_vars

----------------------------------------------------------------------------
(* The two scoring functions, called on one item at a time while the       *)
(* clock runs: a job is scored by JobSearchEngine._calculate_relevance     *)
(* against the job_role, a question by                                     *)
(* InterviewQuestionAPI._calculate_relevance_score against the domain.     *)

\* scoring calls that are followed
MaxScored == 2

\* days that pass while the calls are made
MaxDaysPassing == 1

\* job['relevance_score'] = self._calculate_relevance(job, job_role)
ScoreJob(j, date, role) ==
    /\ Len(scored) < MaxScored
    /\ LET job == [JobData[j] EXCEPT !.posted_date = date]
       IN  scored' = Append(scored,
                        [kind |-> "job", id |-> j, posted_date |-> date, query |-> role,
                         day |-> clock_day,
                         score |-> calculate_relevance_at(job, role, clock_day)])
    /\ UNCHANGED clock_day
    /\ UNCHANGED <<kind, http, request, events>>
    /\ UNCHANGED <<jobVars, questionVars, paceVars, pipelineVars, adapterVars>>
    /\ UNCHANGED <<sessions, cells, provider_nulls>>

\* score = self._calculate_relevance_score(question, domain, company)
ScoreQuestion(q, dom) ==
    /\ Len(scored) < MaxScored
    /\ scored' = Append(scored,
                     [kind |-> "question", id |-> q,
                      posted_date |-> [kind |-> "empty", day |-> 0], query |-> dom,
                      day |-> clock_day,
                      score |-> calculate_relevance_score(QuestionData[q], dom)])
    /\ UNCHANGED clock_day
    /\ UNCHANGED <<kind, http, request, events>>
    /\ UNCHANGED <<jobVars, questionVars, paceVars, pipelineVars, adapterVars>>
    /\ UNCHANGED <<sessions, cells, provider_nulls>>

\* midnight: datetime.now() moves to the next day
DayPasses ==
    /\ clock_day < Today + MaxDaysPassing
    /\ clock_day' = clock_day + 1
    /\ UNCHANGED scored
    /\ UNCHANGED <<kind, http, request, events>>
    /\ UNCHANGED <<jobVars, questionVars, paceVars, pipelineVars, adapterVars>>
    /\ UNCHANGED <<sessions, cells, provider_nulls>>

\* jobs 1 and 6 with any of the posted dates, against 'ml' and 'ai';
\* questions 3 and 5 against the domain; the posted_date values are 31, 30, 8
\* and 7 days before Today, '' and a string that strptime('%Y-%m-%d') rejects;
\* any sequence of scoring calls, on the day of the session or later
SpecScore ==
    /\ Init
    /\ [][ \/ \E j \in {1, 6}, role \in { <<"m","l">>, <<"a","i">> },
                 date \in { [kind |-> "date", day |-> Today - d] : d \in {31, 30, 8, 7} }
                            \cup { [kind |-> "empty", day |-> 0],
                                   [kind |-> "bad", day |-> 0] } :
                  ScoreJob(j, date, role)
           \/ \E q \in {3, 5} : ScoreQuestion(q, PipelineDomain)
           \/ DayPasses ]_vars

----------------------------------------------------------------------------
(* Sessions that run at the same time on job_search_engine, the one        *)
(* JobSearchEngine of the process, and on its adapter instances.  Each     *)
(* request gets its own thread, its own results dict and its own executor; *)
(* the adapters' search_jobs run for several sessions at once.             *)

\* sessions that are started
NumSessions == 2

\* adapters each session searches, and sub-queries each adapter runs
IsolationAdapters == 2

IsolationSubQueries == 2

\* what the provider answers to sub-query k of adapter a for the role: one
\* job, no job for two roles or two sub-queries alike
provider_items(role, a, k) ==
    << (IF role = PipelineRole THEN 0 ELSE 10) + IsolationSubQueries * (a - 1) + k >>

\* a list kept on the adapter instance, which all sessions share
jobs_cell_on_adapter(s, a) == <<0, a>>

\* `jobs = []` is a local of search_jobs: one list per call
jobs_cell(s, a) == <<s, a>>

\* POST /search-jobs: a thread is started for the request; it builds its
\* results dict and submits the adapters' search_jobs
TwoRoute(role) ==
    /\ kind = "none"
    /\ Len(sessions) < NumSessions
    /\ sessions' = Append(sessions,
                      [query |-> role,
                       sub |-> [a \in 1..IsolationAdapters |-> 0],
                       future |-> [a \in 1..IsolationAdapters |-> <<>>],
                       returned |-> {},
                       results |-> NewResults])
    /\ UNCHANGED <<clock_day, scored, cells, provider_nulls>>
    /\ UNCHANGED <<kind, http, request, events>>
    /\ UNCHANGED <<jobVars, questionVars, paceVars, pipelineVars, adapterVars>>

\* one pass of the loop over the search queries in a search_jobs call; the
\* first one comes after `jobs = []`
TwoSubQuery(s, a) ==
    /\ s \in DOMAIN sessions
    /\ a \notin sessions[s].returned
    /\ sessions[s].sub[a] < IsolationSubQueries
    /\ LET cell == jobs_cell(s, a)
           jobs == IF sessions[s].sub[a] = 0 \/ cell \notin DOMAIN cells
                   THEN <<>> ELSE cells[cell]
       IN  cells' = SetSource(cells, cell,
                       jobs \o provider_items(sessions[s].query, a, sessions[s].sub[a] + 1))
    /\ sessions' = [sessions EXCEPT ![s].sub[a] = @ + 1]
    /\ UNCHANGED <<clock_day, scored, provider_nulls>>
    /\ UNCHANGED <<kind, http, request, events>>
    /\ UNCHANGED <<jobVars, questionVars, paceVars, pipelineVars, adapterVars>>

\* `return jobs[:15]` and its like: the future of the task completes
TwoReturn(s, a) ==
    /\ s \in DOMAIN sessions
    /\ a \notin sessions[s].returned
    /\ sessions[s].sub[a] = IsolationSubQueries
    /\ sessions' = [sessions EXCEPT
                      ![s].future[a] = SliceTo(cells[jobs_cell(s, a)], adapter_caps[a]),
                      ![s].returned = @ \cup {a}]
    /\ UNCHANGED <<clock_day, scored, cells, provider_nulls>>
    /\ UNCHANGED <<kind, http, request, events>>
    /\ UNCHANGED <<jobVars, questionVars, paceVars, pipelineVars, adapterVars>>

\* the collection loop and the ranking of a session whose tasks are all done;
\* the futures are taken in the order of the adapters
TwoFinish(s) ==
    /\ s \in DOMAIN sessions
    /\ sessions[s].returned = 1..IsolationAdapters
    /\ sessions[s].results.search_status = "in_progress"
    /\ LET merged == Flatten([a \in 1..IsolationAdapters |-> sessions[s].future[a]])
           ranked == remove_duplicates_and_rank(Unscored(merged), sessions[s].query)
       IN  sessions' = [sessions EXCEPT ![s].results =
                          [search_status |-> "completed",
                           total_jobs |-> Len(ranked),
                           sources |-> [n \in { source_names[a] : a \in 1..IsolationAdapters } |->
                                          sessions[s].future[
                                             CHOOSE a \in 1..IsolationAdapters :
                                                 source_names[a] = n]],
                           all_jobs |-> ranked,
                           summary |-> <<>>]]
    /\ UNCHANGED <<clock_day, scored, cells, provider_nulls>>
    /\ UNCHANGED <<kind, http, request, events>>
    /\ UNCHANGED <<jobVars, questionVars, paceVars, pipelineVars, adapterVars>>

SpecTwo ==
    /\ Init
    /\ [][ \/ \E role \in { PipelineRole, <<"a","i">> } : TwoRoute(role)
           \/ \E s \in 1..NumSessions, a \in 1..IsolationAdapters : TwoSubQuery(s, a)
           \/ \E s \in 1..NumSessions, a \in 1..IsolationAdapters : TwoReturn(s, a)
           \/ \E s \in 1..NumSessions : TwoFinish(s) ]_vars

----------------------------------------------------------------------------
(* Properties of the job-search session                                    *)

Succeeded == { a \in Adapters : outcome[a].kind = "ok" }

Failed == { a \in Adapters : outcome[a].kind = "raise" }

RankedJobIds == { results.all_jobs[k].job : k \in DOMAIN results.all_jobs }

EventNames == { events[k].name : k \in DOMAIN events }

TotalFailureMarksFailed ==
    (pc = "done" /\ Failed = Adapters)
        => /\ results.search_status = "failed"
           /\ "search_failed" \in EventNames
           /\ "search_completed" \notin EventNames

\* C3: the Orchestrator never waits longer than the 30-second deadline for a
\* completion: a task that runs longer stops being waited for.
NeverBlockedPastDeadline == Blocked => waited <= TaskTimeout

\* the merged list, had the futures been collected in submission order
MergedInSubmissionOrder == Unscored(Flatten([a \in Adapters |-> future[a]]))

\* C5: the final ranked and capped sequence is the one the same adapter
\* results give when they are merged in submission order, so it is the same
\* for every completion order.
DeterministicAcrossCompletionOrder ==
    pc = "done"
        => results.all_jobs = remove_duplicates_and_rank(MergedInSubmissionOrder, job_role)

\* C6: once the session has ended, the list recorded under each source name
\* is the list the adapter of that name returned, and so is the count of the
\* source_completed event that names the source.
PerSourceAttribution ==
    pc = "done"
        => \A a \in Adapters :
             /\ source_names[a] \in DOMAIN results.sources
             /\ results.sources[source_names[a]] = future[a]
             /\ \A k \in DOMAIN events :
                  (events[k].name = "source_completed" /\ events[k].source = source_names[a])
                      => events[k].count = Len(future[a])

\* the state of the session's state machine
SessionState ==
    IF pc = "idle" THEN "NONE"
    ELSE IF results.search_status = "completed" THEN "COMPLETED"
    ELSE IF results.search_status = "failed" THEN "FAILED"
    ELSE IF pc = "created" THEN "CREATED"
    ELSE IF pc = "dispatching" THEN "DISPATCHED"
    ELSE "COLLECTING"

SessionTransitions ==
    { <<"NONE", "CREATED">>, <<"CREATED", "DISPATCHED">>, <<"DISPATCHED", "COLLECTING">>,
      <<"COLLECTING", "COMPLETED">>, <<"COLLECTING", "FAILED">> }

----------------------------------------------------------------------------
(* Properties of the question aggregation and of the two routes            *)

\* C8: the interview_search_completed result holds at most
\* min(question_count, 20) questions, question_count being the target count
\* of the session.
QuestionCapInvariant ==
    qpc = "done" => Len(questions) <= Min2(question_count, HardMaxQuestions)

\* C9: the target count handed to the engine lies in [1, 20], whatever
\* integer the request carried.
TargetCountClamped ==
    qpc # "idle" => question_count \in 1..HardMaxQuestions

\* the subject of the request is empty, blank or shorter than two characters
\* once trimmed, or (for questions) is not a supported domain
BadSubject ==
    \/ \A i \in DOMAIN request.subject : IsSpace(request.subject[i])
    \/ Len(Strip(request.subject)) < MinSubjectLen
    \/ kind = "questions" /\ Strip(request.subject) \notin valid_domains

\* C10: a request with such a subject is answered with an error and starts
\* no session: no adapter is invoked, no provider query is made and no event
\* is emitted.
ValidationBeforeDispatch ==
    (kind # "none" /\ BadSubject)
        => /\ http = 400
           /\ pc = "idle" /\ qpc = "idle"
           /\ \A a \in Adapters : task[a] = "none" /\ calls[a] = 0
           /\ query_i = 0
           /\ events = <<>>

\* C10 witness: a job search for a blank job_role was rejected
BlankRoleRejected ==
    /\ kind = "jobs"
    /\ request.subject = <<" ", " ">>
    /\ http = 400

----------------------------------------------------------------------------
(* Property of the provider calls                                          *)

\* C4: any two successive calls to the provider, from whichever adapters,
\* are at least REQUEST_DELAY seconds apart, and at most one adapter is
\* inside a provider call at a time.
ProviderCallsSpaced ==
    /\ minGap >= REQUEST_DELAY
    /\ Cardinality(inCall) <= 1

----------------------------------------------------------------------------
(* Property of the worker pool                                             *)

\* C16: at every moment at most MAX_WORKERS adapter searches are running; a
\* queued adapter starts only in a step that finds fewer than MAX_WORKERS
\* running; and every queued adapter eventually runs.
BoundedWorkerPool ==
    /\ [](Cardinality(Running) <= MAX_WORKERS)
    /\ [][\A a \in Adapters :
            (task[a] = "queued" /\ task'[a] = "running")
                => Cardinality(Running) < MAX_WORKERS]_vars
    /\ \A a \in Adapters : (task[a] = "queued") ~> (task[a] = "running")

\* C16 witness: three adapters are running and the two others wait in the queue
PoolFullTwoQueued ==
    /\ Cardinality(Running) = MAX_WORKERS
    /\ Cardinality(Queued) = NumAdapters - MAX_WORKERS

----------------------------------------------------------------------------
(* Properties of the deduplication and of the ranking, for any merged list *)

\* the deduplication loop has just ended (unique_items never changes later)
Deduplicated == stage = "deduped"

UniqueIds ==
    IF items_kind = "jobs" THEN [k \in DOMAIN unique_items |-> unique_items[k].job]
    ELSE unique_items

UniqueAgainIds ==
    IF items_kind = "jobs" THEN [k \in DOMAIN unique_again |-> unique_again[k].job]
    ELSE unique_again

ReturnedIds ==
    [k \in DOMAIN returned_items |->
        IF items_kind = "jobs" THEN returned_items[k].job ELSE returned_items[k].q]

\* the key the deduplication loop compares
DedupKey(id) ==
    IF items_kind = "jobs" THEN create_job_hash(JobData[id])
    ELSE question_hash(QuestionData[id])

ValidItem(id) == items_kind = "jobs" => is_valid_job(JobData[id])

\* where the item first stands in the merged list
FirstArrival(id) ==
    CHOOSE p \in DOMAIN arrived : arrived[p] = id /\ \A r \in 1..(p - 1) : arrived[r] # id

NoTwoWithSameKey ==
    \A i, j \in DOMAIN UniqueIds : i # j => DedupKey(UniqueIds[i]) # DedupKey(UniqueIds[j])

KeepsArrivalOrder ==
    \A i, j \in DOMAIN UniqueIds :
        i < j => FirstArrival(UniqueIds[i]) < FirstArrival(UniqueIds[j])

\* C11, as claimed: no two output items have the same key, every output
\* item is the first item of the merged list that carries its key, and the
\* output is in arrival order.
FirstSeenWins ==
    Deduplicated
        => /\ NoTwoWithSameKey
           /\ \A k \in DOMAIN UniqueIds :
                \E p \in DOMAIN arrived :
                    /\ arrived[p] = UniqueIds[k]
                    /\ \A r \in 1..(p - 1) : DedupKey(arrived[r]) # DedupKey(UniqueIds[k])
           /\ KeepsArrivalOrder

\* C11, amended: no two output items have the same key, every output item
\* is valid and is the first valid item of the merged list that carries
\* its key (a job with a blank title, company or url is dropped and does not
\* take its key; every question is valid), and the output is in arrival
\* order.
FirstValidSeenWins ==
    Deduplicated
        => /\ NoTwoWithSameKey
           /\ \A k \in DOMAIN UniqueIds :
                \E p \in DOMAIN arrived :
                    /\ arrived[p] = UniqueIds[k]
                    /\ ValidItem(UniqueIds[k])
                    /\ \A r \in 1..(p - 1) :
                         DedupKey(arrived[r]) = DedupKey(UniqueIds[k]) => ~ValidItem(arrived[r])
           /\ KeepsArrivalOrder

\* C11 witness: a job without url arrives first, then twice the same job
\* with a url and the same key; the loop keeps the first job with a url
InvalidFirstThenValid ==
    /\ stage = "deduped"
    /\ items_kind = "jobs"
    /\ arrived = <<9, 4, 4>>
    /\ UniqueIds = <<4>>

\* C12: the deduplication loop run on its own output keeps every item: the
\* same items, none collapsed.
DedupIdempotent ==
    Deduplicated
        => /\ Len(unique_again) = Len(unique_items)
           /\ Range(UniqueAgainIds) = Range(UniqueIds)

\* C12 witness: the first run collapsed a duplicate and kept two questions,
\* the second run kept both
CollapsedOnceOnly ==
    /\ stage = "deduped"
    /\ items_kind = "questions"
    /\ arrived = <<1, 12, 2>>
    /\ unique_items = <<1, 2>>
    /\ unique_again = <<1, 2>>

PrimaryText(id) ==
    IF items_kind = "jobs" THEN JobData[id].title ELSE QuestionData[id].question

\* lower case, punctuation removed, whitespace collapsed
NormalizedText(id) == CollapseSpaces(StripPunct(Strip(Lower(PrimaryText(id)))))

FromDifferentAdapters(id1, id2) ==
    items_kind = "jobs" => JobData[id1].source # JobData[id2].source

\* C13: two valid items from different adapters whose primary texts are
\* equal up to letter case, punctuation and whitespace have the same key,
\* and the output of the deduplication holds exactly one item with that text.
NormalizedIdentity ==
    Deduplicated
        => \A p, r \in DOMAIN arrived :
             ( /\ p < r
               /\ FromDifferentAdapters(arrived[p], arrived[r])
               /\ ValidItem(arrived[p]) /\ ValidItem(arrived[r])
               /\ NormalizedText(arrived[p]) = NormalizedText(arrived[r]) )
                 => /\ DedupKey(arrived[p]) = DedupKey(arrived[r])
                    /\ Cardinality({ k \in DOMAIN UniqueIds :
                           NormalizedText(UniqueIds[k]) = NormalizedText(arrived[p]) }) = 1

\* the score of the k-th item the deduplication kept
UniqueScore(k) ==
    IF items_kind = "jobs" THEN unique_items[k].relevance_score
    ELSE calculate_relevance_score(QuestionData[unique_items[k]], PipelineDomain)

\* the items that can be returned: every job kept, and the questions kept
\* whose score is above the threshold
Eligible ==
    { k \in DOMAIN unique_items :
        items_kind = "questions" => UniqueScore(k) > RelevanceThreshold }

PipelineCap == IF items_kind = "jobs" THEN JobCap ELSE target

\* C14: the returned list is in non-increasing score order; items of equal
\* score are in arrival order; the list holds the min(cap, n) best items:
\* every item left out scores less than every returned item, or the same
\* and arrived later.
RankedStable ==
    stage = "returned"
        => /\ \A i, j \in DOMAIN returned_items :
                i < j => returned_items[i].relevance_score >= returned_items[j].relevance_score
           /\ \A i, j \in DOMAIN returned_items :
                (i < j /\ returned_items[i].relevance_score = returned_items[j].relevance_score)
                    => FirstArrival(ReturnedIds[i]) < FirstArrival(ReturnedIds[j])
           /\ Len(returned_items) = Min2(Cardinality(Eligible), PipelineCap)
           /\ \A k \in Eligible :
                UniqueIds[k] \notin Range(ReturnedIds)
                    => \A i \in DOMAIN returned_items :
                         \/ returned_items[i].relevance_score > UniqueScore(k)
                         \/ /\ returned_items[i].relevance_score = UniqueScore(k)
                            /\ FirstArrival(ReturnedIds[i]) < FirstArrival(UniqueIds[k])

\* C14 witness: three questions, the first two of equal score and the third
\* lower, and a target of 2: the two equal ones are returned in arrival order
TieKeptInArrivalOrder ==
    /\ stage = "returned"
    /\ items_kind = "questions"
    /\ arrived = <<4, 2, 5>>
    /\ target = 2
    /\ ReturnedIds = <<4, 2>>

----------------------------------------------------------------------------
(* Property of the question collection                                     *)

\* everything the results of one provider call hold: per result, the
\* questions extracted from it and the questions scraped from its page
RECURSIVE FullYield(_)
FullYield(rs) ==
    IF rs = <<>> THEN <<>> ELSE Head(rs).ext \o Head(rs).page \o FullYield(Tail(rs))

\* s is made of the full yields of successive provider calls
RECURSIVE MadeOfFullYields(_)
MadeOfFullYields(s) ==
    \/ s = <<>>
    \/ \E o \in QueryOutcomes :
         LET y == FullYield(o.results)
         IN  /\ ~o.failed
             /\ y # <<>>
             /\ Len(y) <= Len(s)
             /\ SubSeq(s, 1, Len(y)) = y
             /\ MadeOfFullYields(SubSeq(s, Len(y) + 1, Len(s)))

\* C15: when deduplication and ranking start, the collected list holds
\* every question the answered provider calls yielded, none cut off for the
\* sake of the target count; the result is then the head of the ranked list.
SoleTruncationPoint ==
    /\ qpc \in {"processing", "done"} => MadeOfFullYields(all_questions)
    /\ qpc = "done"
         => questions = SliceTo(filter_relevant_questions(
                                    remove_duplicate_questions(all_questions), domain),
                                Len(questions))

----------------------------------------------------------------------------
(* Property of one adapter's search_jobs                                   *)

\* C17: whatever raises inside it, the adapter's task ends by returning a
\* list: the list holds every job appended by a sub-query that did not
\* raise, and it is empty when no sub-query appended a job.
AdapterFailureBoundary ==
    /\ adapter_pc = "returned"
         => /\ \A q \in DOMAIN adapter_log :
                 ~adapter_log[q].raised
                     => Range(adapter_log[q].appended) \subseteq Range(adapter_return)
            /\ (\A q \in DOMAIN adapter_log : adapter_log[q].appended = <<>>)
                 => adapter_return = <<>>
    /\ (adapter_pc = "running" /\ adapter_query = SubQueries[adapter]) => ENABLED AdapterReturn

\* C17 witness: LinkedIn's second sub-query raised in the provider call
\* while socketio.emit raises too; the jobs of the first and of the third
\* sub-query are returned
MiddleSubQueryFailed ==
    /\ adapter = 1
    /\ emit_raises
    /\ adapter_pc = "returned"
    /\ Len(adapter_log) = 3
    /\ ~adapter_log[1].raised /\ adapter_log[2].raised /\ ~adapter_log[3].raised
    /\ adapter_return = <<<<1, 1>>, <<3, 1>>>>

----------------------------------------------------------------------------
(* Properties of the events and of the summary of a job-search session     *)

SourceCompletedAt(a) ==
    { k \in DOMAIN events :
        events[k].name = "source_completed" /\ events[k].source = source_names[a] }

\* C18: the first event of an ended session is search_started, the last is
\* search_completed, and in between there is for each adapter exactly one
\* source_completed event that names it, carrying the number of items the
\* adapter returned (0 for an adapter that failed).
ProgressEventStream ==
    pc = "done"
        => /\ events[1].name = "search_started"
           /\ events[Len(events)].name = "search_completed"
           /\ \A a \in Adapters :
                /\ Cardinality(SourceCompletedAt(a)) = 1
                /\ \A k \in SourceCompletedAt(a) :
                     /\ 1 < k /\ k < Len(events)
                     /\ events[k].count = Len(future[a])

\* C19: the total of the summary is the length of the final list, and the
\* per-source counts of the summary add up to it.
SummaryFromFinalSet ==
    pc = "done"
        => LET summary == results.summary[1]
               counts == [a \in Adapters |->
                            IF source_names[a] \in DOMAIN summary.source_breakdown
                            THEN summary.source_breakdown[source_names[a]] ELSE 0]
           IN  /\ summary.total_jobs_found = Len(results.all_jobs)
               /\ SumSeq(counts) = summary.total_jobs_found

----------------------------------------------------------------------------
(* Property of the enhancement of the ranked questions                     *)

OkTexts == { Strip(o.text) : o \in { x \in EnrichOutcomes : x.kind = "ok" } }

----------------------------------------------------------------------------
(* Properties of the scoring functions                                     *)

SameItemAndQuery(c1, c2) ==
    /\ c1.kind = c2.kind
    /\ c1.id = c2.id
    /\ c1.posted_date = c2.posted_date
    /\ c1.query = c2.query

\* C21: every score is a non-negative integer, and two calls that score the
\* same item against the same query return the same score, at whatever
\* moments and in whatever order among other calls they are made.
ScorePurity ==
    /\ \A i \in DOMAIN scored : scored[i].score \in Nat
    /\ \A i, j \in DOMAIN scored :
         SameItemAndQuery(scored[i], scored[j]) => scored[i].score = scored[j].score

\* how old the job was when it was scored
AgeClass(c) ==
    IF c.posted_date.kind # "date" THEN "unknown"
    ELSE IF c.day - c.posted_date.day <= 7 THEN "week"
         ELSE IF c.day - c.posted_date.day <= 30 THEN "month" ELSE "older"

\* two scored jobs that differ in nothing but the posted date
DifferInDateOnly(c1, c2) ==
    /\ c1.kind = "job" /\ c2.kind = "job"
    /\ c1.id = c2.id
    /\ c1.query = c2.query

\* C24: of two jobs equal in every other scored feature, the one aged at
\* most 7 days scores strictly higher than the one aged 8 to 30 days, which
\* scores strictly higher than the one older than 30 days; a job whose
\* posted date is missing or does not parse scores like the one older than
\* 30 days, that is, it gets no recency bonus.
RecencyBonusOrdered ==
    \A i, j \in DOMAIN scored :
        DifferInDateOnly(scored[i], scored[j])
            => LET ci == AgeClass(scored[i])
                   cj == AgeClass(scored[j])
               IN  /\ (ci = "week" /\ cj = "month") => scored[i].score > scored[j].score
                   /\ (ci = "month" /\ cj = "older") => scored[i].score > scored[j].score
                   /\ (ci = "week" /\ cj = "older") => scored[i].score > scored[j].score
                   /\ (ci = "unknown" /\ cj \in {"older", "unknown"})
                        => scored[i].score = scored[j].score
                   /\ (ci = "unknown" /\ cj \in {"week", "month"})
                        => scored[i].score < scored[j].score

\* C24 witness: the same job posted 7 days ago and posted 8 days ago, scored
\* on the same day against the same job_role
WeekAndMonthScored ==
    /\ Len(scored) = 2
    /\ DifferInDateOnly(scored[1], scored[2])
    /\ scored[1].day = scored[2].day
    /\ AgeClass(scored[1]) = "week"
    /\ AgeClass(scored[2]) = "month"
    /\ scored[1].score = scored[2].score + 4

----------------------------------------------------------------------------
(* Properties of the tasks: no retry, and the pause between sub-queries    *)

\* C22: within one session every adapter's search is invoked at most once,
\* and exactly once by the time its task is running or done, also when it
\* raised or returned nothing; inside an adapter the sub-queries are issued
\* one after the other, each index once, also after one that raised, and
\* nothing is issued after the adapter has returned.
NoRetry ==
    /\ \A a \in Adapters :
         calls[a] = IF task[a] \in {"running", "done"} THEN 1 ELSE 0
    /\ \A k \in DOMAIN adapter_log : adapter_log[k].query = k
    /\ Len(adapter_log) <= SubQueries[adapter]
    /\ adapter_pc = "returned" => ~ENABLED NextAdapter

\* C22 witness: every task of the session is done, LinkedIn's search raised
\* and Indeed's returned nothing, and each adapter was invoked once
FailedAndEmptyInvokedOnce ==
    /\ \A a \in Adapters : task[a] = "done" /\ calls[a] = 1
    /\ outcome[1].kind = "raise"
    /\ outcome[3] = Outcome("ok", <<>>)

\* C23: inside one adapter any two successive provider calls are issued at
\* least REQUEST_DELAY seconds apart, also when the earlier one failed.
IntraAdapterPacing ==
    \A k \in DOMAIN adapter_log :
        k > 1 => adapter_log[k].at - adapter_log[k - 1].at >= REQUEST_DELAY

----------------------------------------------------------------------------
(* Property of the cap on the jobs of a session                            *)

\* C25: whatever the number of merged jobs, the final all_jobs list has at
\* most JobCap jobs; they are distinct valid jobs of the deduplicated list,
\* as many as the cap allows, and no job left out scores higher than one
\* that is kept; total_jobs is the length of the list.
JobResultCap ==
    (stage = "returned" /\ items_kind = "jobs")
        => /\ Len(returned_items) <= JobCap
           /\ Len(returned_items) = Min2(Len(unique_items), JobCap)
           /\ Range(returned_items) \subseteq Range(unique_items)
           /\ \A i, j \in DOMAIN returned_items :
                i < j => DedupKey(ReturnedIds[i]) # DedupKey(ReturnedIds[j])
           /\ \A i \in DOMAIN returned_items : ValidItem(ReturnedIds[i])
           /\ \A u \in Range(unique_items) \ Range(returned_items) :
                \A i \in DOMAIN returned_items :
                    returned_items[i].relevance_score >= u.relevance_score
           /\ \A i, j \in DOMAIN returned_items :
                i < j => returned_items[i].relevance_score >= returned_items[j].relevance_score
           /\ returned_total = Len(returned_items)

\* C25 witness: every adapter returned as many jobs as its cap allows, all
\* of them distinct and valid; three of them are cut off
CapCutsThree ==
    /\ stage = "returned"
    /\ Len(arrived) = SumSeq(adapter_caps)
    /\ Len(unique_items) = SumSeq(adapter_caps)
    /\ Len(returned_items) = JobCap
    /\ returned_total = JobCap

----------------------------------------------------------------------------
(* The terminal event of a job-search session                              *)

TerminalEvents ==
    { k \in DOMAIN events : events[k].name \in {"search_completed", "search_failed"} }

SessionStarted == \E k \in DOMAIN events : events[k].name = "search_started"

\* the thread of a started session that has not returned has a step to take
\* (submitting, ranking and summarising wait for nothing), or waits for a task
\* that a worker thread is running or is about to take
SessionGoesOn ==
    CASE pc \in {"dispatching", "ranking", "summarising"} -> TRUE
      [] pc = "collecting"  -> \E a \in Adapters : \/ NextYield(a)
                                                   \/ task[a] = "running"
                                                   \/ CanStart(a)
      [] OTHER              -> FALSE

\* C27: a started job-search session emits search_completed or search_failed
\* exactly once: never both, never a second time, and the thread does not
\* return or stop before the event is out; the event is the last one of the
\* session and is search_completed exactly when search_status is 'completed',
\* search_failed exactly when it is 'failed'.
SingleTerminalEvent ==
    kind = "jobs" /\ SessionStarted =>
        /\ Cardinality(TerminalEvents) <= 1
        /\ pc # "done" => TerminalEvents = {} /\ SessionGoesOn
        /\ pc = "done" =>
             /\ TerminalEvents = {Len(events)}
             /\ results.search_status \in {"completed", "failed"}
             /\ events[Len(events)].name = "search_completed"
                    <=> results.search_status = "completed"
             /\ events[Len(events)].name = "search_failed"
                    <=> results.search_status = "failed"

\* a session whose ranking raised has ended with search_failed alone
EndedWithSearchFailed ==
    /\ pc = "done"
    /\ "search_failed" \in EventNames
    /\ "search_completed" \notin EventNames
    /\ results.search_status = "failed"

----------------------------------------------------------------------------
(* Sessions running at the same time                                       *)

\* what the adapter's search_jobs returns for a role when it runs alone
OwnItems(role, a) ==
    SliceTo(Flatten([k \in 1..IsolationSubQueries |-> provider_items(role, a, k)]),
            adapter_caps[a])

----------------------------------------------------------------------------
(* The target count inside the question API                                *)

\* C28: for a requested question_count n in 1..20, the collection inside the
\* API is bounded by n (it never holds more than n questions), and the
\* session returns n questions whenever the questions collected hold at least
\* n unique relevant ones.
TargetCountPassThrough ==
    kind = "questions" /\ qpc # "idle" /\ question_count \in 1..HardMaxQuestions =>
        /\ Len(all_questions) <= question_count
        /\ qpc = "done" =>
             LET relevant == filter_relevant_questions(
                                 remove_duplicate_questions(all_questions), domain)
             IN  Len(relevant) >= question_count => Len(questions) = question_count

----------------------------------------------------------------------------
(* The validity filter of the job ranking                                  *)

\* the text has a character that is not white space
NonBlank(text) == \E i \in DOMAIN text : ~IsSpace(text[i])

HasAllFields(id) ==
    NonBlank(JobData[id].title) /\ NonBlank(JobData[id].company) /\ NonBlank(JobData[id].url)

\* C29: every job of the final result has a title, a company and a url that
\* are not empty or blank, and carries a relevance_score; a job of the merged
\* list that lacks one of them is not kept, and does not take its key: when a
\* job with all three fields and the same key comes later in the list, the
\* key is among the kept jobs.
ValidityFilter ==
    items_kind = "jobs" =>
        /\ Deduplicated =>
             \A p \in DOMAIN arrived :
                 ~HasAllFields(arrived[p]) =>
                     /\ \A k \in DOMAIN UniqueIds : UniqueIds[k] # arrived[p]
                     /\ \A r \in (p + 1)..Len(arrived) :
                            (HasAllFields(arrived[r])
                                 /\ DedupKey(arrived[r]) = DedupKey(arrived[p]))
                            => \E k \in DOMAIN UniqueIds :
                                   DedupKey(UniqueIds[k]) = DedupKey(arrived[r])
        /\ stage = "returned" =>
             \A k \in DOMAIN returned_items :
                 /\ HasAllFields(returned_items[k].job)
                 /\ returned_items[k].relevance_score # NoScore
                 /\ returned_items[k].relevance_score =
                        calculate_relevance(JobData[returned_items[k].job], PipelineRole)

\* a job without url came first and a job with the same key and a url later:
\* the result is the later job, with its score
LaterValidReturned ==
    /\ stage = "returned"
    /\ items_kind = "jobs"
    /\ Len(arrived) >= 2
    /\ arrived[1] = 9
    /\ arrived[Len(arrived)] = 4
    /\ ReturnedIds = <<4>>
    /\ returned_items[1].relevance_score # NoScore

----------------------------------------------------------------------------
(* The relevance threshold of the question filter                          *)

QuestionScore(id) == calculate_relevance_score(QuestionData[id], PipelineDomain)

\* the deduplicated questions that score more than 3, in the order in which
\* the deduplication left them
AboveThreshold == SelectSeq(UniqueIds, LAMBDA id : QuestionScore(id) > 3)

PositionIn(ids, id) == CHOOSE p \in DOMAIN ids : ids[p] = id

\* C30: every question the filter keeps, and every question returned, has a
\* relevance_score above 3; the filter keeps all deduplicated questions that
\* score above 3 and no other, before any cap: the capped list is cut out of
\* the kept questions only, so that as many questions are returned as the
\* target and the number of questions above the threshold allow; the kept
\* questions stand by descending score, those of equal score in the order
\* they had before the sort.
RelevanceThresholdFilter ==
    items_kind = "questions" =>
        /\ stage \in {"ranked", "enhancing", "returned"} =>
             /\ \A k \in DOMAIN ranked_items :
                    /\ ranked_items[k].relevance_score > 3
                    /\ ranked_items[k].relevance_score = QuestionScore(ranked_items[k].q)
             /\ { ranked_items[k].q : k \in DOMAIN ranked_items } = Range(AboveThreshold)
             /\ Len(ranked_items) = Len(AboveThreshold)
             /\ \A i, j \in DOMAIN ranked_items :
                    i < j =>
                        \/ ranked_items[i].relevance_score > ranked_items[j].relevance_score
                        \/ /\ ranked_items[i].relevance_score = ranked_items[j].relevance_score
                           /\ PositionIn(AboveThreshold, ranked_items[i].q)
                                  < PositionIn(AboveThreshold, ranked_items[j].q)
        /\ stage \in {"enhancing", "returned"} =>
             /\ Len(capped_items) = Min2(Len(AboveThreshold), DefaultQuestionCount)
             /\ capped_items = SubSeq(ranked_items, 1, Len(capped_items))
        /\ stage = "returned" =>
             /\ \A k \in DOMAIN returned_items : returned_items[k].relevance_score > 3
             /\ Len(returned_items)
                    = Min2(Len(AboveThreshold), Min2(target, DefaultQuestionCount))
             /\ \A k \in DOMAIN returned_items : returned_items[k].q = ranked_items[k].q

\* a question scoring exactly 3 came first, one scoring 4 second and one
\* scoring 16 last, for a target of 1: the one returned is the last
ThreeDroppedBeforeCap ==
    /\ stage = "returned"
    /\ items_kind = "questions"
    /\ arrived = <<14, 15, 2>>
    /\ target = 1
    /\ ReturnedIds = <<2>>
    /\ QuestionScore(14) = 3
    /\ QuestionScore(15) = 4

====
